---- MODULE Spec2Model ----
(***************************************************************************)
(* Model of the catgirl_downloader download pipeline:                      *)
(*   cli download -> DownloadRunner.run -> _fetch_candidates (explicit     *)
(*   provider, or auto order of the registry) -> dedupe_candidates         *)
(*   -> download_candidates -> worker (semaphore) -> _download_one (retry  *)
(*   loop) -> fs helpers; summary and exit_code.                           *)
(* Strings that the code inspects character by character (content types,   *)
(* file extensions) are sequences of one-character strings.  An optional   *)
(* value (str | None) is a sequence of length 0 (None) or 1 (the value).   *)
(***************************************************************************)
EXTENDS Integers, Sequences, FiniteSets, TLC

VARIABLES
    count,              \* DownloadRunner.count
    concurrency,        \* DownloadRunner.concurrency
    retries,            \* DownloadRunner.retries
    provider_name,      \* DownloadRunner.provider_name
    rating,             \* DownloadRunner.rating
    theme,              \* DownloadRunner.theme
    warnings,           \* DownloadRunner.warnings
    upstream,           \* provider -> the images its upstream API sends: all
                        \* in one reply, or the i-th in reply to request i
    wire,               \* provider -> what goes wrong with its upstream
                        \* requests: the kind of reply to request 1, 2, ...
    queries,            \* the fetch_candidates calls made so far
    answers,            \* what the calls that have returned gave: the list
                        \* returned and the number of upstream requests made
    awaiting,           \* the fetch_candidates call that has not returned
    collected,          \* _fetch_auto_candidates: its local list `collected`
    remaining,          \* _fetch_auto_candidates: its local `remaining`
    tried,              \* number of providers _fetch_candidates has tried
    entry,              \* how the run is started: "cli" (the download
                        \* command) or "api" (run_download); "call" when
                        \* fetch_candidates of a provider is called alone,
                        \* "repl" for the interactive shell
    exit_status,        \* exit status of the process, once it has exited
    server,             \* url -> set of outcomes one GET of that url may have
    rpc,                \* position of DownloadRunner.run
    candidates,         \* run: the list returned by _fetch_candidates
    unique_candidates,  \* run: unique list, after truncation to count
    results,            \* DownloadRunner.results
    dl_results,         \* download_candidates: its local list `results`
    sem,                \* download_candidates: value of the anyio.Semaphore
    wpc,                \* per worker: position of worker/_download_one
    attempt,            \* per worker: loop variable of _download_one
    replies,            \* per worker: outcomes of the GETs issued so far
    delays,             \* per worker: arguments of the anyio.sleep calls so far
    dirs,               \* category directories existing under out_dir
    temps,              \* temp files (*.tmp) existing under out_dir
    files,              \* files under out_dir: destination path -> content
    clock,              \* wall clock, in seconds
    interrupts,         \* interrupts (SIGINT) the user has yet to send
    randomize,          \* the randomize setting of the caller: --randomize,
                        \* the REPL setting, or the argument of a direct call
    environ,            \* os.environ: the variables the providers read
    post_tags,          \* the tags each post of an upstream reply carries
    shuffle,            \* the order random.shuffle leaves a list in
    repl                \* the interactive shell: its settings and its last
                        \* command

\* what a run is given from outside and never changes, and the shell,
\* which no run changes
given == <<randomize, environ, post_tags, shuffle, repl>>

\* the settings of the run and the state of candidate acquisition
fetch == <<provider_name, rating, theme, warnings, queries, answers, awaiting,
           collected, remaining, tried, entry, given>>

acq == <<fetch, exit_status>>

vars == <<interrupts, count, concurrency, retries, upstream, wire, server, rpc, candidates,
          unique_candidates, results, dl_results, sem, wpc, attempt, replies,
          delays, dirs, temps, files, clock, acq>>

-----------------------------------------------------------------------------
(* Bounds of the model *)

MaxCands == 3       \* longest candidate list a provider returns
MaxConc == 2        \* largest concurrency explored with several workers
MaxClock == 1       \* the wall clock takes the values 0..MaxClock

-----------------------------------------------------------------------------
(* Optional values *)

None == <<>>
Some(x) == <<x>>

(* Characters *)

UpperAlpha ==
    <<"A", "B", "C", "D", "E", "F", "G", "H", "I", "J", "K", "L", "M",
      "N", "O", "P", "Q", "R", "S", "T", "U", "V", "W", "X", "Y", "Z">>
LowerAlpha ==
    <<"a", "b", "c", "d", "e", "f", "g", "h", "i", "j", "k", "l", "m",
      "n", "o", "p", "q", "r", "s", "t", "u", "v", "w", "x", "y", "z">>

\* str.lower() on one character
LowerChar(ch) ==
    IF \E i \in 1..Len(UpperAlpha) : UpperAlpha[i] = ch
    THEN LowerAlpha[CHOOSE i \in 1..Len(UpperAlpha) : UpperAlpha[i] = ch]
    ELSE ch

\* str.lower()
Lower(s) == [i \in 1..Len(s) |-> LowerChar(s[i])]

\* str.startswith(prefix)
StartsWith(s, prefix) ==
    /\ Len(s) >= Len(prefix)
    /\ SubSeq(s, 1, Len(prefix)) = prefix

\* str.strip(): drop leading and trailing blanks
RECURSIVE LStrip(_)
LStrip(s) == IF s # <<>> /\ Head(s) = " " THEN LStrip(Tail(s)) ELSE s
RECURSIVE RStrip(_)
RStrip(s) ==
    IF s # <<>> /\ s[Len(s)] = " " THEN RStrip(SubSeq(s, 1, Len(s) - 1)) ELSE s
Strip(s) == RStrip(LStrip(s))

\* index of the first occurrence of ch in s, 0 if there is none
IndexOf(s, ch) ==
    IF \E i \in 1..Len(s) : s[i] = ch
    THEN CHOOSE i \in 1..Len(s) : s[i] = ch /\ \A j \in 1..(i - 1) : s[j] # ch
    ELSE 0

\* s.split(ch, maxsplit=1)[0] and [1]
SplitHead(s, ch) == IF IndexOf(s, ch) = 0 THEN s ELSE SubSeq(s, 1, IndexOf(s, ch) - 1)
SplitRest(s, ch) == SubSeq(s, IndexOf(s, ch) + 1, Len(s))

AlnumLower == {"a", "b", "c", "d", "e", "f", "g", "h", "i", "j", "k", "l", "m",
               "n", "o", "p", "q", "r", "s", "t", "u", "v", "w", "x", "y", "z",
               "0", "1", "2", "3", "4", "5", "6", "7", "8", "9"}

\* re.fullmatch(r"[a-z0-9]{1,10}", s)
IsSafeToken(s) ==
    /\ Len(s) >= 1
    /\ Len(s) <= 10
    /\ \A i \in 1..Len(s) : s[i] \in AlnumLower

IMAGE_PREFIX == <<"i", "m", "a", "g", "e", "/">>
MISSING == <<"m", "i", "s", "s", "i", "n", "g">>


-----------------------------------------------------------------------------
(* fs.py *)

\* CONTENT_TYPE_EXTENSION_MAP.get(subtype, subtype)
CONTENT_TYPE_EXTENSION_MAP(subtype) ==
    CASE subtype = <<"j", "p", "e", "g">> -> <<"j", "p", "g">>
      [] subtype = <<"p", "j", "p", "e", "g">> -> <<"j", "p", "g">>
      [] subtype = <<"s", "v", "g", "+", "x", "m", "l">> -> <<"s", "v", "g">>
      [] subtype = <<"x", "-", "i", "c", "o", "n">> -> <<"i", "c", "o">>
      [] subtype = <<"v", "n", "d", ".", "m", "i", "c", "r", "o", "s", "o", "f", "t", ".", "i", "c", "o", "n">> -> <<"i", "c", "o">>
      [] OTHER -> subtype

\* the URLs of the model
U1 == "https://img.example/a.webp"
U2 == "https://img.example/b"
U3 == "https://img.example/c.JPG"
U4 == "https://img.example/d.png"
Urls == <<U1, U2, U3, U4>>

\* two URLs whose SHA-1 digests begin with the same ten hex digits
Twins == <<"https://img.example/p/617926", "https://img.example/p/1236377">>

\* Path(urlparse(url).path).suffix.lower(), for the URLs of the model
UrlSuffix(url) ==
    CASE url = U1 -> <<".", "w", "e", "b", "p">>
      [] url = U3 -> <<".", "j", "p", "g">>
      [] url = U4 -> <<".", "p", "n", "g">>
      [] OTHER -> <<>>

\* hashlib.sha1(url.encode("utf-8")).hexdigest()[:10], for the URLs of the
\* model (Twins[1] and Twins[2] collide)
UrlDigest(url) ==
    CASE url = U1 -> "df0c08e811"
      [] url = U2 -> "2eddc23227"
      [] url = U3 -> "c7d57a61a4"
      [] url = Twins[1] -> "21fcf3eb1a"
      [] url = Twins[2] -> "21fcf3eb1a"
      [] OTHER -> "aa6dffa914"

extension_from_content_type(content_type, url) ==
    LET normalized == Lower(Strip(SplitHead(content_type, ";")))
        subtype == SplitRest(normalized, "/")
        mapped0 == CONTENT_TYPE_EXTENSION_MAP(subtype)
        mapped == IF IndexOf(mapped0, "+") # 0 /\ mapped0 # <<"s", "v", "g", "+", "x", "m", "l">>
                  THEN SplitHead(mapped0, "+") ELSE mapped0
        suffix == UrlSuffix(url)
    IN  IF /\ content_type # <<>>
           /\ StartsWith(normalized, IMAGE_PREFIX)
           /\ IsSafeToken(mapped)
        THEN <<".">> \o mapped
        ELSE IF suffix # <<>> /\ Head(suffix) = "." /\ IsSafeToken(Tail(suffix))
             THEN suffix
             ELSE <<".", "i", "m", "g">>

\* as build_filename, but the name holds no digest of the URL
build_filename_NoDigest(provider, url, extension, now) ==
    LET normalized_extension ==
            IF StartsWith(extension, <<".">>) THEN extension ELSE <<".">> \o extension
    IN  [provider |-> provider, timestamp |-> now, digest |-> "",
         extension |-> normalized_extension]

\* the file name is the formatted string provider_timestamp_digest.ext; the
\* timestamp is the wall clock at second granularity
build_filename(provider, url, extension, now) ==
    LET normalized_extension ==
            IF StartsWith(extension, <<".">>) THEN extension ELSE <<".">> \o extension
    IN  [provider |-> provider, timestamp |-> now, digest |-> UrlDigest(url),
         extension |-> normalized_extension]

\* out_dir / category, created if it does not exist (idempotent)
ensure_category_dir(ds, category) ==
    [dirs |-> ds \cup {category}, dir |-> category]

\* category_dir / file_name
JoinPath(dir, file_name) == [dir |-> dir, name |-> file_name]



\* as atomic_write_bytes, but the temp file is never renamed to the destination
atomic_write_bytes_NoReplace(fsys, path, data, fault) ==
    LET made == [fsys EXCEPT !.dirs = @ \cup {path.dir}]
        temp == [dir |-> path.dir, stem |-> path.name]
    IN  CASE fault = "write" ->
                [fsys |-> [made EXCEPT !.temps = @ \cup {temp}],
                 raised |-> Some("OSError")]
          [] fault \in {"close", "replace"} ->
                [fsys |-> made, raised |-> Some("OSError")]
          [] OTHER ->
                [fsys |-> [made EXCEPT !.temps = @ \cup {temp}], raised |-> None]

\* as atomic_write_bytes, but the data are written into the destination
\* itself: a failed write leaves there what had been written before it
atomic_write_bytes_InPlace(fsys, path, data, fault) ==
    LET made == [fsys EXCEPT !.dirs = @ \cup {path.dir}]
        put(content) == [made EXCEPT
                            !.files = [p \in DOMAIN @ \cup {path} |->
                                          IF p = path THEN content ELSE @[p]]]
    IN  CASE fault = "write" -> [fsys |-> put(""), raised |-> Some("OSError")]
          [] fault \in {"close", "replace"} ->
                [fsys |-> made, raised |-> Some("OSError")]
          [] OTHER -> [fsys |-> put(data), raised |-> None]

\* The filesystem is [dirs, temps, files].  The temp file is named after the
\* stem of the destination.  Returns the filesystem afterwards and the
\* exception raised, if any.
atomic_write_bytes(fsys, path, data, fault) ==
    LET made == [fsys EXCEPT !.dirs = @ \cup {path.dir}]
        temp == [dir |-> path.dir, stem |-> path.name]
    IN  CASE fault = "write" ->
                \* tmp_file.write raises before temp_path is assigned
                [fsys |-> [made EXCEPT !.temps = @ \cup {temp}],
                 raised |-> Some("OSError")]
          [] fault \in {"close", "replace"} ->
                \* closing the temp file or os.replace raises: temp_path is
                \* assigned by then, and the temp file is removed
                [fsys |-> made, raised |-> Some("OSError")]
          [] OTHER ->
                [fsys |-> [made EXCEPT
                              !.files = [p \in DOMAIN @ \cup {path} |->
                                            IF p = path THEN data ELSE @[p]]],
                 raised |-> None]

-----------------------------------------------------------------------------
(* models.py *)

RemoteImage(provider, category, url) ==
    [provider |-> provider, category |-> category, url |-> url]

DownloadResult(url, path, provider, status, error) ==
    [url |-> url, path |-> path, provider |-> provider, status |-> status,
     error |-> error]

-----------------------------------------------------------------------------
(* httpx: the exceptions a GET can end with, and their classes *)

\* the classes an exception of the given type is an instance of
ExcClasses(type) ==
    CASE type = "ReadTimeout" ->
            {"ReadTimeout", "TimeoutException", "TransportError", "RequestError",
             "HTTPError", "Exception"}
      [] type = "ConnectError" ->
            {"ConnectError", "NetworkError", "TransportError", "RequestError",
             "HTTPError", "Exception"}
      [] type = "TooManyRedirects" ->
            {"TooManyRedirects", "RequestError", "HTTPError", "Exception"}
      [] type = "HTTPStatusError" -> {"HTTPStatusError", "HTTPError", "Exception"}
      [] type \in {"KeyboardInterrupt", "CancelledError"} -> {type, "BaseException"}
      [] type = "JSONDecodeError" -> {"JSONDecodeError", "ValueError", "Exception"}
      [] OTHER -> {type, "Exception"}

IsInstance(exc, classes) == ExcClasses(exc.type) \cap classes # {}

\* an exception: its type, the status of its response (0 if it has none) and
\* str(exc), a fixed text followed by a variable part
Exc(type, status, text, arg) ==
    [type |-> type, status |-> status, text |-> text, arg |-> arg]

Str(exc) == [text |-> exc.text, status |-> exc.status, arg |-> exc.arg]

\* the exception of a GET that got no response: the outcome's net is
\* "ReadTimeout", "ConnectError" or "TooManyRedirects"
NetExc(kind) ==
    CASE kind = "ReadTimeout" -> Exc(kind, 0, "timed out", <<>>)
      [] kind = "ConnectError" -> Exc(kind, 0, "All connection attempts failed", <<>>)
      [] OTHER -> Exc(kind, 0, "Exceeded maximum allowed redirects.", <<>>)

\* response.raise_for_status() raises unless the status is 2xx
IsSuccess(status) == status >= 200 /\ status <= 299


-----------------------------------------------------------------------------
(* downloader.py: pure functions *)

\* seconds of delay, in milliseconds
BACKOFF_SCHEDULE == <<500, 1000, 2000>>

DuplicateError == [text |-> "Duplicate URL in candidate list", status |-> 0, arg |-> <<>>]

\* the result recorded for a later occurrence of a URL
DuplicateResult(item) ==
    DownloadResult(item.url, None, item.provider, "skipped_duplicate",
                   Some(DuplicateError))

RECURSIVE DedupeLoop(_, _, _, _)
DedupeLoop(items, seen_urls, unique, duplicate_results) ==
    IF items = <<>>
    THEN [unique |-> unique, duplicate_results |-> duplicate_results]
    ELSE LET item == Head(items)
         IN  IF item.url \in seen_urls
             THEN DedupeLoop(Tail(items), seen_urls, unique,
                             Append(duplicate_results, DuplicateResult(item)))
             ELSE DedupeLoop(Tail(items), seen_urls \cup {item.url},
                             Append(unique, item), duplicate_results)

\* as dedupe_candidates, but a duplicate is dropped without a result
dedupe_candidates_Drops(cands) ==
    [unique |-> DedupeLoop(cands, {}, <<>>, <<>>).unique, duplicate_results |-> <<>>]

RECURSIVE DedupeLoop_ByProvider(_, _, _, _)
DedupeLoop_ByProvider(items, seen, unique, duplicate_results) ==
    IF items = <<>>
    THEN [unique |-> unique, duplicate_results |-> duplicate_results]
    ELSE LET item == Head(items)
         IN  IF <<item.provider, item.url>> \in seen
             THEN DedupeLoop_ByProvider(Tail(items), seen, unique,
                             Append(duplicate_results, DuplicateResult(item)))
             ELSE DedupeLoop_ByProvider(Tail(items),
                             seen \cup {<<item.provider, item.url>>},
                             Append(unique, item), duplicate_results)

\* as dedupe_candidates, but the key is the provider together with the URL
dedupe_candidates_ByProvider(cands) == DedupeLoop_ByProvider(cands, {}, <<>>, <<>>)

RECURSIVE DedupeLoop_NoContinue(_, _, _, _)
DedupeLoop_NoContinue(items, seen_urls, unique, duplicate_results) ==
    IF items = <<>>
    THEN [unique |-> unique, duplicate_results |-> duplicate_results]
    ELSE LET item == Head(items)
         IN  DedupeLoop_NoContinue(Tail(items), seen_urls \cup {item.url},
                 Append(unique, item),
                 IF item.url \in seen_urls
                 THEN Append(duplicate_results, DuplicateResult(item))
                 ELSE duplicate_results)

\* as dedupe_candidates, but without the `continue` after a duplicate
dedupe_candidates_NoContinue(cands) == DedupeLoop_NoContinue(cands, {}, <<>>, <<>>)

dedupe_candidates(cands) == DedupeLoop(cands, {}, <<>>, <<>>)

\* as _is_retryable, but every HTTP error status counts
_is_retryable_ClientErrors(exc) ==
    IF IsInstance(exc, {"TimeoutException", "RequestError"})
    THEN TRUE
    ELSE IF IsInstance(exc, {"HTTPStatusError"})
         THEN exc.status >= 400
         ELSE FALSE

_is_retryable(exc) ==
    IF IsInstance(exc, {"TimeoutException", "RequestError"})
    THEN TRUE
    ELSE IF IsInstance(exc, {"HTTPStatusError"})
         THEN exc.status >= 500
         ELSE FALSE

\* as _retry_delay, but the delay keeps doubling past the end of the schedule
_retry_delay_KeepsDoubling(attempt_index) == 500 * 2^attempt_index

\* attempt_index is 0-based; sequences are 1-based
_retry_delay(attempt_index) ==
    IF attempt_index < Len(BACKOFF_SCHEDULE)
    THEN BACKOFF_SCHEDULE[attempt_index + 1]
    ELSE BACKOFF_SCHEDULE[Len(BACKOFF_SCHEDULE)]

-----------------------------------------------------------------------------
(* what one GET, and the filesystem during the attempt, can do *)

Outcome(net, status, content_type, body, fs) ==
    [net |-> net, status |-> status, content_type |-> content_type,
     body |-> body, fs |-> fs]

CT_PNG == <<"i", "m", "a", "g", "e", "/", "p", "n", "g">>
CT_PNG_UPPER == <<"I", "M", "A", "G", "E", "/", "P", "N", "G">>
CT_JPEG_PARAM == <<"i", "m", "a", "g", "e", "/", "j", "p", "e", "g", ";", " ", "a">>
CT_BARE == <<"I", "m", "a", "g", "e", "/">>
CT_HTML == <<"t", "e", "x", "t", "/", "h", "t", "m", "l">>
CT_PADDED == <<" ", "i", "m", "a", "g", "e", "/", "p", "n", "g">>

O_PNG == Outcome("response", 200, Some(CT_PNG), "img1", "none")
O_PNG_UPPER == Outcome("response", 200, Some(CT_PNG_UPPER), "img2", "none")
O_JPEG == Outcome("response", 201, Some(CT_JPEG_PARAM), "img2", "none")
O_BARE == Outcome("response", 200, Some(CT_BARE), "img1", "none")
O_HTML == Outcome("response", 200, Some(CT_HTML), "page", "none")
O_PADDED == Outcome("response", 200, Some(CT_PADDED), "img1", "none")
O_NO_CT == Outcome("response", 200, None, "img1", "none")
O_EMPTY_CT == Outcome("response", 200, Some(<<>>), "img1", "none")
O_500 == Outcome("response", 500, Some(CT_HTML), "err", "none")
O_404 == Outcome("response", 404, Some(CT_PNG), "err", "none")
O_TIMEOUT == Outcome("ReadTimeout", 0, None, "", "none")
O_CONNECT == Outcome("ConnectError", 0, None, "", "none")
O_REDIRECTS == Outcome("TooManyRedirects", 0, None, "", "none")
O_MKDIR_FAILS == Outcome("response", 200, Some(CT_PNG), "img1", "mkdir")
O_WRITE_FAILS == Outcome("response", 200, Some(CT_PNG), "img2", "write")
O_REPLACE_FAILS == Outcome("response", 200, Some(CT_PNG), "img1", "replace")
O_CLOSE_FAILS == Outcome("response", 200, Some(CT_PNG), "img2", "close")

Outcomes ==
    {O_PNG, O_PNG_UPPER, O_JPEG, O_BARE, O_HTML, O_PADDED, O_NO_CT, O_EMPTY_CT,
     O_500, O_404, O_TIMEOUT, O_CONNECT, O_REDIRECTS,
     O_MKDIR_FAILS, O_WRITE_FAILS, O_REPLACE_FAILS, O_CLOSE_FAILS}

\* response.headers.get("content-type", "")
HeaderContentType(outcome) ==
    IF outcome.content_type = None THEN <<>> ELSE outcome.content_type[1]

\* as IsImageContentType, but "image/" may stand anywhere in the value
IsImageContentType_Contains(content_type) ==
    \E i \in 1..Len(content_type) :
        StartsWith(SubSeq(Lower(content_type), i, Len(content_type)), IMAGE_PREFIX)

\* the check of the content type in _download_one
IsImageContentType(content_type) == StartsWith(Lower(content_type), IMAGE_PREFIX)

\* The try block of _download_one for one attempt: the exception it raises,
\* if any, the destination written, the filesystem afterwards, and whether
\* build_filename was reached (it reads the wall clock).
TryBlock(image, outcome, fsys, now) ==
    LET content_type == HeaderContentType(outcome)
        extension == extension_from_content_type(content_type, image.url)
        made == ensure_category_dir(fsys.dirs, image.category)
        file_name == build_filename(image.provider, image.url, extension, now)
        destination == JoinPath(made.dir, file_name)
        written == atomic_write_bytes([fsys EXCEPT !.dirs = made.dirs],
                                      destination, outcome.body, outcome.fs)
    IN  CASE outcome.net # "response" ->
                [raised |-> Some(NetExc(outcome.net)), path |-> None, fsys |-> fsys,
                 named |-> FALSE]
          [] ~IsSuccess(outcome.status) ->
                [raised |-> Some(Exc("HTTPStatusError", outcome.status,
                                     "HTTP status error", <<>>)),
                 path |-> None, fsys |-> fsys, named |-> FALSE]
          [] ~IsImageContentType(content_type) ->
                [raised |-> Some(Exc("ValueError", 0, "Non-image content type: ",
                                     IF content_type # <<>> THEN content_type
                                                            ELSE MISSING)),
                 path |-> None, fsys |-> fsys, named |-> FALSE]
          [] outcome.fs = "mkdir" ->
                [raised |-> Some(Exc("OSError", 0, "cannot create directory", <<>>)),
                 path |-> None, fsys |-> fsys, named |-> FALSE]
          [] written.raised # None ->
                [raised |-> Some(Exc("OSError", 0, "cannot write file", <<>>)),
                 path |-> None, fsys |-> written.fsys, named |-> TRUE]
          [] OTHER ->
                [raised |-> None, path |-> Some(destination), fsys |-> written.fsys,
                 named |-> TRUE]

\* as OkResult, but the path is left out
OkResult_NoPath(image, destination) ==
    DownloadResult(image.url, None, image.provider, "ok", None)

\* the result of _download_one after a successful attempt
OkResult(image, destination) ==
    DownloadResult(image.url, Some(destination), image.provider, "ok", None)

\* as FailedResult, but the error is left at its default
FailedResult_NoError(image, exc) ==
    DownloadResult(image.url, None, image.provider, "failed", None)

\* the result of _download_one after an attempt that is not repeated
FailedResult(image, exc) ==
    DownloadResult(image.url, None, image.provider, "failed", Some(Str(exc)))

UnreachableError == [text |-> "Unreachable retry branch", status |-> 0, arg |-> <<>>]

\* the result of _download_one when its loop ends without a return
UnreachableResult(image) ==
    DownloadResult(image.url, None, image.provider, "failed", Some(UnreachableError))

\* as Caught, but the clause is `except httpx.HTTPError`
Caught_HttpOnly(exc) == IsInstance(exc, {"HTTPError"})

\* the except clause of _download_one: `except Exception as exc`
Caught(exc) == IsInstance(exc, {"Exception"})

\* as ShouldRetry, but the last attempt is repeated too
ShouldRetry_OffByOne(attempt_index, retries_, exc) ==
    attempt_index <= retries_ /\ _is_retryable(exc)

\* the condition of the except clause under which the attempt is repeated
ShouldRetry(attempt_index, retries_, exc) ==
    attempt_index < retries_ /\ _is_retryable(exc)


-----------------------------------------------------------------------------
(* providers/*.py: what each provider declares; providers/registry.py *)

\* the members of a tuple
Range(seq) == {seq[i] : i \in 1..Len(seq)}

VALID_USER_RATINGS == {"any", "safe", "suggestive", "borderline", "explicit"}
VALID_THEMES == {"catgirl", "neko", "kitsune", "femboy"}

\* the class attributes of a provider that the registry and the runner read
Provider(name, supported_themes, supported_ratings) ==
    [name |-> name,
     supported_themes |-> supported_themes,
     supported_ratings |-> supported_ratings]

WaifuPicsProvider ==
    Provider("waifu_pics", <<"catgirl", "neko", "femboy">>,
             <<"any", "safe", "explicit">>)
NekosApiProvider ==
    Provider("nekosapi", <<"catgirl">>,
             <<"any", "safe", "suggestive", "borderline", "explicit">>)
NekosBestProvider ==
    Provider("nekos_best", <<"catgirl", "neko", "kitsune">>, <<"any", "safe">>)
NekosLifeProvider ==
    Provider("nekos_life", <<"catgirl", "neko", "kitsune">>, <<"any", "safe">>)
NekobotProvider ==
    Provider("nekobot", <<"catgirl", "neko">>, <<"any", "safe">>)
E621Provider ==
    Provider("e621", <<"femboy">>,
             <<"any", "safe", "suggestive", "borderline", "explicit">>)
Rule34Provider ==
    Provider("rule34", <<"femboy">>,
             <<"any", "safe", "suggestive", "borderline", "explicit">>)

_PROVIDERS ==
    [waifu_pics |-> WaifuPicsProvider,
     nekosapi |-> NekosApiProvider,
     nekos_best |-> NekosBestProvider,
     nekos_life |-> NekosLifeProvider,
     nekobot |-> NekobotProvider,
     e621 |-> E621Provider,
     rule34 |-> Rule34Provider]

\* list_provider_names(), as a set
ProviderNames == DOMAIN _PROVIDERS

get_provider(name) == _PROVIDERS[name]

\* as PriorityOrder, but the one list for every theme
PriorityOrder_OneList(theme_) ==
    <<"nekosapi", "waifu_pics", "nekos_life", "nekobot", "nekos_best", "e621",
      "rule34">>

\* the branch of get_auto_provider_order that picks the priority list
PriorityOrder(theme_) ==
    IF theme_ = "catgirl"
    THEN <<"nekosapi", "waifu_pics", "nekos_life", "nekobot", "nekos_best">>
    ELSE IF theme_ = "neko"
    THEN <<"waifu_pics", "nekos_best", "nekos_life", "nekobot", "nekosapi">>
    ELSE IF theme_ = "femboy"
    THEN <<"waifu_pics", "e621", "rule34">>
    ELSE <<"nekos_best", "nekos_life", "nekosapi", "waifu_pics", "nekobot">>

\* as Supports, but the rating is not looked at
Supports_ThemeOnly(provider, rating_, theme_) ==
    theme_ \in Range(provider.supported_themes)

\* the test a provider passes in the loop of get_auto_provider_order: it is
\* skipped (`continue`) unless it declares both the theme and the rating
Supports(provider, rating_, theme_) ==
    /\ theme_ \in Range(provider.supported_themes)
    /\ rating_ \in Range(provider.supported_ratings)

\* the loop of get_auto_provider_order over order[i:]
RECURSIVE FilterOrder(_, _, _, _)
FilterOrder(order, i, rating_, theme_) ==
    IF i > Len(order) THEN <<>>
    ELSE IF Supports(get_provider(order[i]), rating_, theme_)
    THEN <<order[i]>> \o FilterOrder(order, i + 1, rating_, theme_)
    ELSE FilterOrder(order, i + 1, rating_, theme_)

\* as get_auto_provider_order, but the priority list is not filtered
get_auto_provider_order_Unfiltered(rating_, theme_) == PriorityOrder(theme_)

get_auto_provider_order(rating_, theme_) ==
    FilterOrder(PriorityOrder(theme_), 1, rating_, theme_)

-----------------------------------------------------------------------------
(* downloader.py: DownloadRunner._fetch_candidates *)

\* the f-string of a capability warning: the provider, what it does not
\* support, the requested value, and the values it supports
Warning(provider_name_, what, value, supported) ==
    [provider |-> provider_name_,
     text |-> <<" does not support ", what, " '", value, "'. Supported: ">>,
     supported |-> supported]

\* The replies of an upstream API: the JSON object the provider expects
\* ("ok"), no reply in time, a status that is not 2xx, a body that is not
\* JSON, a JSON value that is not an object (a string), or an object whose
\* field ('value', 'results', 'posts', 'post', 'url', 'message') has the
\* wrong type.
WireKinds == {"ok", "timeout", "status", "not_json", "not_object", "bad_field"}

\* the kind of the reply to the i-th upstream request of a fetch
WireAt(provider_name_, i) ==
    IF i <= Len(wire[provider_name_]) THEN wire[provider_name_][i] ELSE "ok"

\* client.get, response.raise_for_status() and response.json(): the
\* exception raised, if any
RequestJson(kind) ==
    CASE kind = "timeout" -> Some(Exc("ReadTimeout", 0, "timed out", <<>>))
      [] kind = "status" -> Some(Exc("HTTPStatusError", 500, "HTTP status error", <<>>))
      [] kind = "not_json" -> Some(Exc("JSONDecodeError", 0, "Expecting value", <<>>))
      [] OTHER -> None

\* the except clause of every provider:
\* `except (httpx.HTTPError, ValueError, TypeError)`
ProviderCaught(exc) == IsInstance(exc, {"HTTPError", "ValueError", "TypeError"})

\* what a fetch_candidates call gives: the exception it raises, if any, the
\* list it returns, and the number of upstream requests it has made
Fetched(raised, returned, requests_) ==
    [raised |-> raised, returned |-> returned, requests |-> requests_,
     params |-> <<>>]

\* A provider that asks its API for `count` images in one request (nekosapi,
\* nekos_best, e621, rule34): the request in its try block, the test of the
\* payload type, then the parse function, which raises ValueError for a
\* field that is not a list (rule34's does not) and is called outside the
\* try block.  e621 and rule34 return candidates[:count].
ListFetch(provider_name_, count_, parse_raises, cut) ==
    LET kind == WireAt(provider_name_, 1)
        error == RequestJson(kind)
        parse_error == Some(Exc("ValueError", 0, "payload must include a list", <<>>))
        parsed == upstream[provider_name_]
    IN  IF error # None
        THEN IF ProviderCaught(error[1]) THEN Fetched(None, <<>>, 1)
                                         ELSE Fetched(error, <<>>, 1)
        ELSE IF kind \in {"not_object", "null", "empty"} THEN Fetched(None, <<>>, 1)
        ELSE IF kind = "bad_field"
        THEN IF parse_raises THEN Fetched(parse_error, <<>>, 1)
                             ELSE Fetched(None, <<>>, 1)
        ELSE Fetched(None,
                     IF cut /\ Len(parsed) > count_ THEN SubSeq(parsed, 1, count_)
                                                    ELSE parsed,
                     1)

\* the try block of one iteration of a one-image-per-call provider: the
\* request and parse_*_payload(response.json()), which calls payload.get
\* (AttributeError when the payload is a string) and raises ValueError when
\* the field is not a non-empty string
OneUrlTry(provider_name_, i) ==
    LET kind == WireAt(provider_name_, i)
    IN  IF RequestJson(kind) # None THEN RequestJson(kind)
        ELSE IF kind \in {"not_object", "null"}
        THEN Some(Exc("AttributeError", 0, "object has no attribute 'get'", <<>>))
        ELSE IF kind \in {"bad_field", "empty"} \/ i > Len(upstream[provider_name_])
        THEN Some(Exc("ValueError", 0, "payload missing non-empty field", <<>>))
        ELSE None

\* as OnePerCallLoop, but the loop goes on until it has `count` candidates
RECURSIVE OnePerCallLoop_UntilFull(_, _, _, _)
OnePerCallLoop_UntilFull(provider_name_, count_, i, candidates_) ==
    IF Len(candidates_) = count_ \/ i > count_ + Len(wire[provider_name_])
    THEN Fetched(None, candidates_, i)
    ELSE LET error == OneUrlTry(provider_name_, i + 1)
         IN  IF error = None
             THEN OnePerCallLoop_UntilFull(provider_name_, count_, i + 1,
                         Append(candidates_, upstream[provider_name_][i + 1]))
             ELSE IF ProviderCaught(error[1])
             THEN OnePerCallLoop_UntilFull(provider_name_, count_, i + 1, candidates_)
             ELSE Fetched(error, candidates_, i + 1)

\* `for _ in range(count)` of waifu_pics, nekos_life and nekobot, after i
\* iterations: one request each, a caught error skips the iteration
RECURSIVE OnePerCallLoop(_, _, _, _)
OnePerCallLoop(provider_name_, count_, i, candidates_) ==
    IF i = count_
    THEN Fetched(None, candidates_, i)
    ELSE LET error == OneUrlTry(provider_name_, i + 1)
         IN  IF error = None
             THEN OnePerCallLoop(provider_name_, count_, i + 1,
                                 Append(candidates_, upstream[provider_name_][i + 1]))
             ELSE IF ProviderCaught(error[1])
             THEN OnePerCallLoop(provider_name_, count_, i + 1, candidates_)
             ELSE Fetched(error, candidates_, i + 1)

\* as Truncate, but nothing is cut off
Truncate_NoCut(seq, n) == seq

\* candidates[: n]
Truncate(seq, n) == IF Len(seq) > n THEN SubSeq(seq, 1, n) ELSE seq

RANDOM_POOL_MULTIPLIER == 8

\* the query parameters of the first request of e621 and rule34: the tags
\* of theme and rating, the limit (widened when randomize is set), and a
\* random page (e621) or pid (rule34) when randomize is set
PagedParams(provider_name_, count_, randomize_) ==
    LET MAX_LIMIT == [e621 |-> 320, rule34 |-> 100]
        min(a, b) == IF a < b THEN a ELSE b
        max(a, b) == IF a > b THEN a ELSE b
    IN  [tags |-> <<theme, rating>>,
         limit |-> IF randomize_
                   THEN min(MAX_LIMIT[provider_name_],
                            max(count_ * RANDOM_POOL_MULTIPLIER, count_))
                   ELSE count_,
         random |-> randomize_]

\* request_payload(request_params) is None: the request failed with an
\* error the except clause catches, or the reply is the JSON value null
PayloadIsNone(kind) ==
    \/ kind = "null"
    \/ RequestJson(kind) # None /\ ProviderCaught(RequestJson(kind)[1])

\* parse_e621_payload / parse_rule34_payload of a payload that is not None,
\* as fetch_candidates calls them: e621 tests isinstance(payload, Mapping)
\* first and its parse function raises ValueError when 'posts' is not a
\* list; the parse function of rule34 gives [] for whatever it does not
\* know
ParsePosts(provider_name_, kind) ==
    IF kind = "ok" THEN [raised |-> None, posts |-> upstream[provider_name_]]
    ELSE IF kind = "bad_field" /\ provider_name_ = "e621"
    THEN [raised |-> Some(Exc("ValueError", 0, "payload must include a list", <<>>)),
          posts |-> <<>>]
    ELSE [raised |-> None, posts |-> <<>>]

\* fetch_candidates of e621 and rule34 from the first request on: the
\* request; `return []` when its payload is None; with randomize, the parse
\* of the payload and, when it gives no candidate, one request with the
\* fallback parameters; then `return []` when the payload is None, the
\* parse, random.shuffle when randomize is set, and candidates[:count]
PagedFetch(provider_name_, count_, randomize_) ==
    LET params == PagedParams(provider_name_, count_, randomize_)
        first == WireAt(provider_name_, 1)
        second == WireAt(provider_name_, 2)
        \* fallback_params: a copy of params without "page" / "pid"
        fallback_params == [params EXCEPT !.random = FALSE]
        sent(n) == IF n = 1 THEN <<params>> ELSE <<params, fallback_params>>
        \* random.shuffle(candidates): the i-th item goes where the ranks
        \* of `shuffle` put it
        Shuffled(list) ==
            LET place(i) == 1 + Cardinality({j \in 1..Len(list) : shuffle[j] < shuffle[i]})
            IN  [k \in 1..Len(list) |-> list[CHOOSE i \in 1..Len(list) : place(i) = k]]
        end(kind, n) ==
            LET parsed == ParsePosts(provider_name_, kind)
                ordered == IF randomize_ THEN Shuffled(parsed.posts) ELSE parsed.posts
            IN  IF parsed.raised # None
                THEN [Fetched(parsed.raised, <<>>, n) EXCEPT !.params = sent(n)]
                ELSE [Fetched(None, Truncate(ordered, count_), n)
                         EXCEPT !.params = sent(n)]
        empty(n) == [Fetched(None, <<>>, n) EXCEPT !.params = sent(n)]
    IN  IF RequestJson(first) # None /\ ~ProviderCaught(RequestJson(first)[1])
        THEN [Fetched(RequestJson(first), <<>>, 1) EXCEPT !.params = sent(1)]
        ELSE IF PayloadIsNone(first) THEN empty(1)
        ELSE IF ~randomize_ THEN end(first, 1)
        ELSE LET parsed == ParsePosts(provider_name_, first)
             IN  IF parsed.raised # None
                 THEN [Fetched(parsed.raised, <<>>, 1) EXCEPT !.params = sent(1)]
                 ELSE IF parsed.posts # <<>> THEN end(first, 1)
                 ELSE IF PayloadIsNone(second) THEN empty(2)
                 ELSE end(second, 2)

\* as HasCredentials, but a blank value counts
HasCredentials_Unstripped ==
    LET getenv(name) == IF name \in DOMAIN environ THEN environ[name] ELSE <<>>
    IN  /\ getenv("RULE34_USER_ID") # <<>>
        /\ getenv("RULE34_API_KEY") # <<>>

\* rule34: user_id and api_key, which are os.getenv(name, "").strip(), are
\* both non-empty
HasCredentials ==
    LET getenv(name) == IF name \in DOMAIN environ THEN environ[name] ELSE <<>>
    IN  /\ Strip(getenv("RULE34_USER_ID")) # <<>>
        /\ Strip(getenv("RULE34_API_KEY")) # <<>>

\* the cap of the tag lists of e621 and rule34: tags[:32]
TAG_CAP == 32

\* all groups of tags in one list
RECURSIVE Flatten(_)
Flatten(groups) ==
    IF groups = <<>> THEN <<>> ELSE Head(groups) \o Flatten(Tail(groups))

\* parse_e621_payload: the loop over tags_map.values(), which extends the
\* list by one group at a time and breaks once it is longer than the cap
RECURSIVE ExtendByGroups(_, _)
ExtendByGroups(tags, groups) ==
    IF groups = <<>> \/ Len(tags) > TAG_CAP THEN tags
    ELSE ExtendByGroups(tags \o Head(groups), Tail(groups))

\* the tags of the RemoteImage a provider makes of a post whose tags come
\* in `groups`: nekosapi keeps the strings of item['tags']; e621 and rule34
\* put the theme and their name first and keep tags[:32]; the other
\* providers give fixed tags
ItemTags(provider_name_, groups) ==
    CASE provider_name_ = "nekosapi" -> Flatten(groups)
      [] provider_name_ = "e621" ->
            Truncate(ExtendByGroups(<<theme, "e621">>, groups), TAG_CAP)
      [] provider_name_ = "rule34" ->
            Truncate(<<theme, "rule34">> \o Flatten(groups), TAG_CAP)
      [] provider_name_ = "waifu_pics" ->
            <<IF theme = "femboy" THEN "trap" ELSE "neko", theme, "waifu.pics">>
      [] provider_name_ = "nekos_best" -> <<theme, "nekos.best">>
      [] provider_name_ = "nekos_life" -> <<theme, "nekos.life">>
      [] OTHER -> <<theme, "nekobot">>

\* the combination a provider declares in supported_themes and
\* supported_ratings but answers with `return []` in its request loop:
\* waifu_pics has no sfw endpoint for femboy
RejectsInside(provider_name_) ==
    provider_name_ = "waifu_pics" /\ theme = "femboy" /\ rating = "safe"

\* provider.fetch_candidates(count, rating, timeout, theme, randomize) of
\* the seven providers: [] for count <= 0 and for a theme (and, but for
\* nekosapi, e621 and rule34, a rating) the provider does not declare;
\* rule34 returns [] without its credentials; waifu_pics returns [] for
\* femboy with safe before its first request; only e621 and rule34 read
\* randomize
fetch_candidates(provider_name_, count_, randomize_) ==
    LET provider == get_provider(provider_name_)
        theme_only == provider_name_ \in {"nekosapi", "e621", "rule34"}
    IN  IF count_ <= 0 THEN Fetched(None, <<>>, 0)
        ELSE IF theme \notin Range(provider.supported_themes)
        THEN Fetched(None, <<>>, 0)
        ELSE IF ~theme_only /\ rating \notin Range(provider.supported_ratings)
        THEN Fetched(None, <<>>, 0)
        ELSE CASE provider_name_ \in {"nekosapi", "nekos_best"} ->
                    ListFetch(provider_name_, count_, TRUE, FALSE)
               [] provider_name_ = "e621" ->
                    PagedFetch(provider_name_, count_, randomize_)
               [] provider_name_ = "rule34" ->
                    IF HasCredentials THEN PagedFetch(provider_name_, count_, randomize_)
                                      ELSE Fetched(None, <<>>, 0)
               [] RejectsInside(provider_name_) ->
                    Fetched(None, <<>>, 0)
               [] OTHER -> OnePerCallLoop(provider_name_, count_, 0, <<>>)

\* the record of one fetch_candidates call
Query(provider_name_, count_) ==
    [provider |-> provider_name_, count |-> count_, rating |-> rating,
     theme |-> theme, randomize |-> FALSE]

\* as _fetch_single_provider, but the capability checks are left out
_fetch_single_provider_NoCheck(provider_name_, count_) ==
    [warnings |-> warnings, call |-> Some(Query(provider_name_, count_))]

\* _fetch_single_provider up to its await: the warnings after it, and the
\* fetch_candidates call it makes, if it makes one (it returns [] at once
\* otherwise)
_fetch_single_provider(provider_name_, count_) ==
    LET provider == get_provider(provider_name_)
    IN  IF theme \notin Range(provider.supported_themes)
        THEN [warnings |-> Append(warnings,
                              Warning(provider_name_, "theme", theme,
                                      provider.supported_themes)),
              call |-> None]
        ELSE IF rating \notin Range(provider.supported_ratings)
        THEN [warnings |-> Append(warnings,
                              Warning(provider_name_, "rating", rating,
                                      provider.supported_ratings)),
              call |-> None]
        ELSE [warnings |-> warnings,
              call |-> Some(Query(provider_name_, count_))]

\* _fetch_candidates with an explicit provider: one call of
\* _fetch_single_provider for the whole count
FetchExplicit ==
    /\ rpc = "fetch"
    /\ provider_name # "auto"
    /\ tried = 0
    /\ awaiting = None
    /\ LET single == _fetch_single_provider(provider_name, count)
       IN  /\ warnings' = single.warnings
           /\ queries' = queries \o single.call
           /\ awaiting' = single.call
           /\ tried' = IF single.call = None THEN 1 ELSE tried
    /\ UNCHANGED <<interrupts, count, concurrency, retries, upstream, wire, server, rpc, candidates,
                   unique_candidates, results, dl_results, sem, wpc, attempt,
                   replies, delays, dirs, temps, files, clock, provider_name,
                   rating, theme, collected, remaining, entry, exit_status,
                   answers, given>>

\* as FetchAuto, but every provider is asked for the whole count
FetchAuto_WholeCount ==
    /\ rpc = "fetch"
    /\ provider_name = "auto"
    /\ awaiting = None
    /\ LET order == get_auto_provider_order(rating, theme)
       IN  /\ tried < Len(order)
           /\ remaining > 0
           /\ LET single == _fetch_single_provider(order[tried + 1], count)
              IN  /\ warnings' = single.warnings
                  /\ queries' = queries \o single.call
                  /\ awaiting' = single.call
                  /\ tried' = IF single.call = None THEN tried + 1 ELSE tried
    /\ UNCHANGED <<interrupts, count, concurrency, retries, upstream, wire, server, rpc, candidates,
                   unique_candidates, results, dl_results, sem, wpc, attempt,
                   replies, delays, dirs, temps, files, clock, provider_name,
                   rating, theme, collected, remaining, entry, exit_status,
                   answers, given>>

\* the loop of _fetch_auto_candidates, from the test of `remaining` that
\* does not break to the await in _fetch_single_provider: the next provider
\* of the order is asked for the remaining deficit
FetchAuto ==
    /\ rpc = "fetch"
    /\ provider_name = "auto"
    /\ awaiting = None
    /\ LET order == get_auto_provider_order(rating, theme)
       IN  /\ tried < Len(order)
           /\ remaining > 0
           /\ LET single == _fetch_single_provider(order[tried + 1], remaining)
              IN  /\ warnings' = single.warnings
                  /\ queries' = queries \o single.call
                  /\ awaiting' = single.call
                  /\ tried' = IF single.call = None THEN tried + 1 ELSE tried
    /\ UNCHANGED <<interrupts, count, concurrency, retries, upstream, wire, server, rpc, candidates,
                   unique_candidates, results, dl_results, sem, wpc, attempt,
                   replies, delays, dirs, temps, files, clock, provider_name,
                   rating, theme, collected, remaining, entry, exit_status,
                   answers, given>>

\* the awaited fetch_candidates call returns: _fetch_candidates has its
\* list (explicit provider), or the loop of _fetch_auto_candidates extends
\* `collected` and recomputes `remaining`
ProviderReturns ==
    /\ rpc = "fetch"
    /\ awaiting # None
    /\ LET call == fetch_candidates(awaiting[1].provider, awaiting[1].count,
                                    awaiting[1].randomize)
           fetched == call.returned
       IN  IF call.raised # None
           THEN \* the exception leaves _fetch_candidates and run
                /\ rpc' = "raised"
                /\ UNCHANGED <<collected, remaining, answers>>
           ELSE /\ collected' = collected \o fetched
                /\ remaining' = IF provider_name = "auto"
                                THEN count - Len(collected \o fetched)
                                ELSE remaining
                \* kept of the call: the list, the tags of its images, and
                \* the upstream requests made
                /\ answers' = Append(answers,
                       [returned |-> call.returned,
                        tags |-> [i \in 1..Len(call.returned) |->
                                     ItemTags(awaiting[1].provider, post_tags)],
                        requests |-> call.requests,
                        params |-> call.params])
                /\ UNCHANGED rpc
    /\ awaiting' = None
    /\ tried' = tried + 1
    /\ UNCHANGED <<interrupts, count, concurrency, retries, upstream, wire, server,
                   candidates, unique_candidates, results, dl_results, sem, wpc,
                   attempt, replies, delays, dirs, temps, files, clock,
                   provider_name, rating, theme, warnings, queries, entry,
                   exit_status, given>>

\* provider.fetch_candidates(count, rating, timeout, theme, randomize)
\* called on its own, as the tests of the providers call it: from the call
\* to its return or to the exception that leaves it
Call ==
    /\ rpc = "call"
    /\ LET call == fetch_candidates(provider_name, count, randomize)
       IN  /\ queries' = Append(queries, [Query(provider_name, count)
                                             EXCEPT !.randomize = randomize])
           /\ IF call.raised # None
              THEN rpc' = "raised" /\ UNCHANGED answers
              ELSE /\ rpc' = "returned"
                   /\ answers' = Append(answers,
                          [returned |-> call.returned,
                           tags |-> [i \in 1..Len(call.returned) |->
                                        ItemTags(provider_name, post_tags)],
                           requests |-> call.requests,
                           params |-> call.params])
    /\ UNCHANGED <<interrupts, count, concurrency, retries, upstream, wire, server,
                   candidates, unique_candidates, results, dl_results, sem, wpc,
                   attempt, replies, delays, dirs, temps, files, clock,
                   provider_name, rating, theme, warnings, awaiting, collected,
                   remaining, tried, entry, exit_status, given>>

\* _fetch_candidates has nothing left to await: the explicit provider has
\* answered, or the loop of _fetch_auto_candidates has ended or broken
FetchDone ==
    /\ awaiting = None
    /\ IF provider_name = "auto"
       THEN tried = Len(get_auto_provider_order(rating, theme)) \/ remaining <= 0
       ELSE tried = 1

-----------------------------------------------------------------------------
(* downloader.py: DownloadRunner.summary, exit_code; cli.py: download *)

\* sum(1 for result in self.results if result.status == status)
CountStatus(self_results, status) ==
    Cardinality({i \in 1..Len(self_results) : self_results[i].status = status})

\* as summary, but skipped duplicates are counted as failed
summary_DuplicatesFailed(self_results) ==
    [requested |-> count,
     downloaded |-> CountStatus(self_results, "ok"),
     failed |-> CountStatus(self_results, "failed")
                  + CountStatus(self_results, "skipped_duplicate"),
     duplicates |-> 0]

\* DownloadRunner.summary() when self.results is self_results (output_dir,
\* the resolved out_dir, is left out)
summary(self_results) ==
    [requested |-> count,
     downloaded |-> CountStatus(self_results, "ok"),
     failed |-> CountStatus(self_results, "failed"),
     duplicates |-> CountStatus(self_results, "skipped_duplicate")]

\* DownloadRunner.exit_code() when self.results is self_results
exit_code(self_results) ==
    IF summary(self_results).downloaded = count THEN 0 ELSE 1

\* the fields of the dataclass DownloadRunner, which are the keywords its
\* constructor accepts
DownloadRunnerFields ==
    {"count", "provider_name", "out_dir", "concurrency", "retries", "timeout",
     "rating", "theme", "warnings", "results"}

\* the keywords with which _run_download calls DownloadRunner
RunDownloadKeywords ==
    {"count", "provider_name", "out_dir", "concurrency", "retries", "timeout",
     "theme", "rating", "randomize"}

\* a dataclass constructor raises TypeError for an unexpected keyword
ConstructorRaises(keywords) == keywords \ DownloadRunnerFields # {}

\* the end of _run_download and download: return runner.exit_code() and
\* raise typer.Exit(code=code); a run started by run_download exits nothing
Exit(self_results) ==
    IF entry = "cli" THEN Some(exit_code(self_results)) ELSE exit_status

\* the download command, up to anyio.run(runner.run): the runner is
\* constructed, and a TypeError of the constructor is caught nowhere
_run_download ==
    /\ rpc = "cli"
    /\ IF ConstructorRaises(RunDownloadKeywords)
       THEN \* the interpreter ends with status 1
            rpc' = "raised" /\ exit_status' = Some(1)
       ELSE rpc' = "fetch" /\ UNCHANGED exit_status
    /\ UNCHANGED <<interrupts, count, concurrency, retries, upstream, wire, server, candidates,
                   unique_candidates, results, dl_results, sem, wpc, attempt,
                   replies, delays, dirs, temps, files, clock, fetch>>

-----------------------------------------------------------------------------
(* downloader.py: DownloadRunner.run, download_candidates, worker *)

Workers == 1..Len(unique_candidates)

Fsys == [dirs |-> dirs, temps |-> temps, files |-> files]

\* as RunStart, but download_candidates has no early return: it creates its
\* semaphore (and client and task group) for an empty list too
RunStart_NoEarlyReturn ==
    /\ rpc = "fetch"
    /\ FetchDone
    /\ LET fetched == IF provider_name = "auto" THEN Truncate(collected, count)
                                                ELSE collected
           deduped == dedupe_candidates(fetched)
           kept == Truncate(deduped.unique, count)
       IN  /\ candidates' = fetched
           /\ results' = results \o deduped.duplicate_results
           /\ unique_candidates' = kept
           /\ dl_results' = <<>>
           /\ wpc' = [w \in 1..Len(kept) |-> "start"]
           /\ attempt' = [w \in 1..Len(kept) |-> 0]
           /\ replies' = [w \in 1..Len(kept) |-> <<>>]
           /\ delays' = [w \in 1..Len(kept) |-> <<>>]
           /\ rpc' = "download"
           /\ sem' = concurrency
           /\ UNCHANGED exit_status
    /\ UNCHANGED <<interrupts, count, concurrency, retries, upstream, wire, server,
                   dirs, temps, files, clock, fetch>>

\* run, from the return of _fetch_candidates (collected[: count] in auto
\* mode) to the point where download_candidates has started its workers:
\* the candidates are deduplicated, the duplicates are recorded,
\* the unique list is truncated, and download_candidates either returns []
\* at once (no candidate) or creates the semaphore and starts one worker for
\* each candidate.
RunStart ==
    /\ rpc = "fetch"
    /\ FetchDone
    /\ LET fetched == IF provider_name = "auto" THEN Truncate(collected, count)
                                                ELSE collected
           deduped == dedupe_candidates(fetched)
           kept == Truncate(deduped.unique, count)
       IN  /\ candidates' = fetched
           /\ results' = results \o deduped.duplicate_results
           /\ unique_candidates' = kept
           /\ dl_results' = <<>>
           /\ wpc' = [w \in 1..Len(kept) |-> "start"]
           /\ attempt' = [w \in 1..Len(kept) |-> 0]
           /\ replies' = [w \in 1..Len(kept) |-> <<>>]
           /\ delays' = [w \in 1..Len(kept) |-> <<>>]
           /\ IF kept = <<>>
              THEN /\ rpc' = "done"
                   /\ sem' = sem
                   /\ exit_status' = Exit(results \o deduped.duplicate_results)
              ELSE /\ rpc' = "download"
                   /\ sem' = concurrency
                   /\ UNCHANGED exit_status
    /\ UNCHANGED <<interrupts, count, concurrency, retries, upstream, wire, server, dirs, temps,
                   files, clock, fetch>>

\* as Acquire, but a worker does not wait for a free slot
Acquire_NoWait(w) ==
    /\ rpc = "download"
    /\ wpc[w] = "start"
    /\ sem' = sem - 1
    /\ wpc' = [wpc EXCEPT ![w] = "get"]
    /\ UNCHANGED <<interrupts, count, concurrency, retries, upstream, wire, server, rpc, candidates,
                   unique_candidates, results, dl_results, attempt, replies,
                   delays, dirs, temps, files, clock, acq>>

\* worker: `async with semaphore` is entered
Acquire(w) ==
    /\ rpc = "download"
    /\ wpc[w] = "start"
    /\ sem > 0
    /\ sem' = sem - 1
    /\ wpc' = [wpc EXCEPT ![w] = "get"]
    /\ UNCHANGED <<interrupts, count, concurrency, retries, upstream, wire, server, rpc, candidates,
                   unique_candidates, results, dl_results, attempt, replies,
                   delays, dirs, temps, files, clock, acq>>

\* as Finish, but the worker keeps its slot
Finish_KeepsSlot(w, result) ==
    /\ dl_results' = Append(dl_results, result)
    /\ sem' = sem
    /\ wpc' = [wpc EXCEPT ![w] = "done"]

\* as Finish, but a failed result is not appended
Finish_DropsFailed(w, result) ==
    /\ dl_results' = IF result.status = "ok" THEN Append(dl_results, result)
                                              ELSE dl_results
    /\ sem' = sem + 1
    /\ wpc' = [wpc EXCEPT ![w] = "done"]

\* _download_one returns result: the worker appends it to the results and
\* leaves the `async with semaphore` block
Finish(w, result) ==
    /\ dl_results' = Append(dl_results, result)
    /\ sem' = sem + 1
    /\ wpc' = [wpc EXCEPT ![w] = "done"]

\* An exception leaves _download_one: it leaves the worker and its
\* `async with semaphore` block, the task group cancels the workers that have
\* not finished, and download_candidates and run raise it.
Propagate(w) ==
    /\ dl_results' = dl_results
    /\ sem' = sem + Cardinality({v \in Workers : wpc[v] \in {"get", "sleep"}})
    /\ wpc' = [v \in Workers |->
                  IF v = w THEN "raised"
                  ELSE IF wpc[v] = "done" THEN "done" ELSE "cancelled"]

\* as Attempt, but the slot is given back for the time of the backoff sleep
Attempt_SleepsOutsideSlot(w) ==
    /\ rpc = "download"
    /\ wpc[w] = "get"
    /\ LET image == unique_candidates[w]
       IN  \E outcome \in server[image.url], now \in clock..MaxClock :
             LET try == TryBlock(image, outcome, Fsys, now)
                 exc == try.raised[1]
             IN  /\ replies' = [replies EXCEPT ![w] = Append(@, outcome)]
                 /\ dirs' = try.fsys.dirs
                 /\ temps' = try.fsys.temps
                 /\ files' = try.fsys.files
                 \* time passes; it is observed only by build_filename
                 /\ (~try.named => now = clock)
                 /\ clock' = now
                 /\ rpc' = IF try.raised # None /\ ~Caught(exc) THEN "raised"
                                                                  ELSE rpc
                 /\ IF try.raised = None
                    THEN /\ Finish(w, OkResult(image, try.path[1]))
                         /\ UNCHANGED delays
                    ELSE IF ~Caught(exc)
                    THEN /\ Propagate(w)
                         /\ UNCHANGED delays
                    ELSE IF ShouldRetry(attempt[w], retries, exc)
                    THEN /\ delays' = [delays EXCEPT
                                          ![w] = Append(@, _retry_delay(attempt[w]))]
                         /\ wpc' = [wpc EXCEPT ![w] = "sleep"]
                         /\ sem' = sem + 1
                         /\ UNCHANGED dl_results
                    ELSE /\ Finish(w, FailedResult(image, exc))
                         /\ UNCHANGED delays
    /\ UNCHANGED <<interrupts, count, concurrency, retries, upstream, wire, server, candidates,
                   unique_candidates, results, attempt, acq>>

\* one iteration of the loop of _download_one: the GET, the try block and the
\* except clause
Attempt(w) ==
    /\ rpc = "download"
    /\ wpc[w] = "get"
    /\ LET image == unique_candidates[w]
       IN  \E outcome \in server[image.url], now \in clock..MaxClock :
             LET try == TryBlock(image, outcome, Fsys, now)
                 exc == try.raised[1]
             IN  /\ replies' = [replies EXCEPT ![w] = Append(@, outcome)]
                 /\ dirs' = try.fsys.dirs
                 /\ temps' = try.fsys.temps
                 /\ files' = try.fsys.files
                 \* time passes; it is observed only by build_filename
                 /\ (~try.named => now = clock)
                 /\ clock' = now
                 /\ rpc' = IF try.raised # None /\ ~Caught(exc) THEN "raised"
                                                                  ELSE rpc
                 /\ IF try.raised = None
                    THEN /\ Finish(w, OkResult(image, try.path[1]))
                         /\ UNCHANGED delays
                    ELSE IF ~Caught(exc)
                    THEN /\ Propagate(w)
                         /\ UNCHANGED delays
                    ELSE IF ShouldRetry(attempt[w], retries, exc)
                    THEN /\ delays' = [delays EXCEPT
                                          ![w] = Append(@, _retry_delay(attempt[w]))]
                         /\ wpc' = [wpc EXCEPT ![w] = "sleep"]
                         /\ UNCHANGED <<dl_results, sem>>
                    ELSE /\ Finish(w, FailedResult(image, exc))
                         /\ UNCHANGED delays
    /\ UNCHANGED <<interrupts, count, concurrency, retries, upstream, wire, server, candidates,
                   unique_candidates, results, attempt, acq>>

\* anyio.sleep returns and `continue` takes the loop to its next iteration,
\* or out of the loop when range(retries + 1) is exhausted
Wake(w) ==
    /\ rpc = "download"
    /\ wpc[w] = "sleep"
    /\ attempt' = [attempt EXCEPT ![w] = @ + 1]
    /\ IF attempt[w] + 1 < retries + 1
       THEN /\ wpc' = [wpc EXCEPT ![w] = "get"]
            /\ UNCHANGED <<dl_results, sem>>
       ELSE Finish(w, UnreachableResult(unique_candidates[w]))
    /\ UNCHANGED <<interrupts, count, concurrency, retries, upstream, wire, server, rpc, candidates,
                   unique_candidates, results, replies, delays, dirs, temps,
                   files, clock, acq>>

\* The user interrupts the run.  The workers that have not finished are
\* abandoned where they are, leaving their `async with semaphore` blocks;
\* neither the except clause of _download_one nor the one of
\* atomic_write_bytes catches the interrupt, so a worker stopped between the
\* creation of its temp file and os.replace leaves the temp file behind.
\* run does not return: self.results keeps what it held, and the local
\* results of download_candidates are dropped.  The download command
\* prints runner.summary() and returns 1.
Interrupt ==
    /\ interrupts > 0
    /\ rpc \in {"fetch", "download"}
    /\ interrupts' = interrupts - 1
    /\ rpc' = "interrupted"
    /\ sem' = sem + Cardinality({v \in Workers : wpc[v] \in {"get", "sleep"}})
    /\ wpc' = [v \in Workers |-> IF wpc[v] = "done" THEN "done" ELSE "cancelled"]
    /\ exit_status' = IF entry = "cli" THEN Some(1) ELSE exit_status
    /\ \/ UNCHANGED <<dirs, temps, files, clock>>
       \/ \E w \in Workers, now \in clock..MaxClock :
             \E outcome \in server[unique_candidates[w].url] :
               LET stopped == TryBlock(unique_candidates[w],
                                       [outcome EXCEPT !.fs = "write"], Fsys, now)
               IN  /\ rpc = "download"
                   /\ wpc[w] = "get"
                   /\ stopped.named
                   /\ dirs' = stopped.fsys.dirs
                   /\ temps' = stopped.fsys.temps
                   /\ files' = stopped.fsys.files
                   /\ clock' = now
    /\ UNCHANGED <<count, concurrency, retries, upstream, wire, server, candidates,
                   unique_candidates, results, dl_results, attempt, replies,
                   delays, fetch>>

\* the task group is left when every worker has finished; download_candidates
\* returns its results and run appends them to self.results; a run started
\* by the download command ends the process with the exit code
Return ==
    /\ rpc = "download"
    /\ \A w \in Workers : wpc[w] = "done"
    /\ results' = results \o dl_results
    /\ rpc' = "done"
    /\ exit_status' = Exit(results \o dl_results)
    /\ UNCHANGED <<interrupts, count, concurrency, retries, upstream, wire, server, candidates,
                   unique_candidates, dl_results, sem, wpc, attempt, replies,
                   delays, dirs, temps, files, clock, fetch>>

-----------------------------------------------------------------------------
(* Initial states: the settings of the run and its environment.  The inputs *)
(* are explored in families, so that each of them stays small.              *)

MaxRetries == 5     \* cli.py: --retries, max=5
MaxConcurrency == 16    \* cli.py: --concurrency, max=16

\* the images the upstream APIs hold; a provider labels each candidate with
\* its own name and with the theme asked for
C_A1 == RemoteImage("nekosapi", theme, U1)
C_W1 == RemoteImage("waifu_pics", theme, U1)
C_A2 == RemoteImage("nekosapi", theme, U2)
C_W2 == RemoteImage("waifu_pics", theme, U2)
C_A3 == RemoteImage("nekosapi", theme, U3)
C_W3 == RemoteImage("waifu_pics", theme, U3)
C_W4 == RemoteImage("waifu_pics", theme, U4)

UrlSet == {Urls[i] : i \in 1..Len(Urls)}

\* all sequences over S of length at most n
SeqsUpTo(S, n) == UNION {[1..k -> S] : k \in 0..n}

\* the upstream in which nekosapi has the list a, waifu_pics the list w, and
\* the other providers have nothing
TwoProviders(a, w) ==
    [p \in ProviderNames |->
        IF p = "nekosapi" THEN a ELSE IF p = "waifu_pics" THEN w ELSE <<>>]

\* the URL of the one image each upstream API holds in InitOrder; two pairs
\* of providers hold the same image
UrlOf ==
    [waifu_pics |-> U2, nekosapi |-> U1, nekos_best |-> U3, nekos_life |-> U4,
     nekobot |-> U1, e621 |-> U3, rule34 |-> U4]

\* the number of images each upstream API sends in InitWire
MaxSent == 3

\* every upstream request gets the reply the provider expects
NoFaults == [p \in ProviderNames |-> <<>>]

\* a run of DownloadRunner without the randomize hint, with both credentials
\* of rule34 in the environment, upstream posts without tags, and no shell
Plain ==
    /\ randomize = FALSE
    /\ environ = [RULE34_USER_ID |-> <<"4", "2">>, RULE34_API_KEY |-> <<"k", "e", "y">>]
    /\ post_tags = <<>>
    /\ shuffle = [i \in 1..MaxSent |-> i]
    /\ repl = [pc |-> "none"]

\* the state of a run that has not started
InitCommon ==
    /\ rpc = IF entry \in {"cli", "call", "repl"} THEN entry ELSE "fetch"
    /\ exit_status = None
    /\ warnings = <<>>
    /\ queries = <<>>
    /\ answers = <<>>
    /\ awaiting = None
    /\ collected = <<>>
    /\ remaining = count
    /\ tried = 0
    /\ candidates = <<>>
    /\ unique_candidates = <<>>
    /\ results = <<>>
    /\ dl_results = <<>>
    /\ sem = 0
    /\ wpc = <<>>
    /\ attempt = <<>>
    /\ replies = <<>>
    /\ delays = <<>>
    /\ dirs = {}
    /\ temps = {}
    /\ files = <<>>

\* any lists from nekosapi and waifu_pics, with either provider named or
\* both tried in auto mode, downloaded one at a time from a server that
\* works; the API of nekosapi may send more images than it was asked for
InitLists ==
    /\ Plain
    /\ wire = NoFaults
    /\ interrupts = 0
    /\ entry = "api"
    /\ clock = 0
    /\ theme = "catgirl"
    /\ rating = "safe"
    /\ provider_name \in {"auto", "nekosapi", "waifu_pics"}
    /\ \E a \in SeqsUpTo({C_A1, C_A2}, MaxCands) \cup {<<C_A1, C_A1, C_A2, C_A3>>},
          w \in SeqsUpTo({C_W1, C_W2, C_W4}, 2) \cup {<<C_W1, C_W2, C_W4>>} :
          /\ provider_name = "nekosapi" => w = <<>>
          /\ provider_name = "waifu_pics" => a = <<>>
          /\ upstream = TwoProviders(a, w)
    /\ count \in 1..MaxCands
    /\ concurrency = 1
    /\ retries = 0
    /\ server = [u \in UrlSet |-> {O_PNG}]

\* several workers at once within one second of the wall clock, each server
\* either flaky or broken
InitWorkers ==
    /\ Plain
    /\ wire = NoFaults
    /\ interrupts = 0
    /\ entry = "api"
    /\ clock = MaxClock
    /\ theme = "catgirl"
    /\ rating = "safe"
    /\ provider_name = "auto"
    /\ \E a \in {<<>>, <<C_A1>>}, k \in 0..MaxCands :
          upstream = TwoProviders(a, SubSeq(<<C_W2, C_W1, C_W4, C_W3>>, 1, k))
    /\ count = MaxCands
    /\ concurrency \in 1..MaxConc \cup {MaxConcurrency}
    /\ retries = 1
    /\ \E flaky \in {{O_PNG, O_500}, {O_PNG_UPPER, O_CONNECT}, {O_HTML, O_WRITE_FAILS}} :
          server = [u \in UrlSet |-> flaky]

\* one candidate, every number of retries, every outcome but the refused
\* connection
InitRetry ==
    /\ Plain
    /\ wire = NoFaults
    /\ interrupts = 0
    /\ entry = "api"
    /\ clock = 0
    /\ theme = "catgirl"
    /\ rating = "safe"
    /\ provider_name = "waifu_pics"
    /\ upstream = TwoProviders(<<>>, <<C_W4>>)
    /\ count = 1
    /\ concurrency = 1
    /\ retries \in 0..MaxRetries
    /\ server = [u \in UrlSet |-> Outcomes \ {O_CONNECT}]

\* a theme value that is none of the four themes
OtherTheme == "foxgirl"

\* every theme and rating with every choice of provider; each upstream API
\* sends one image; for neko, that of nekos_best may send two, the first of
\* them the image of waifu_pics
InitOrder ==
    /\ Plain
    /\ wire = NoFaults
    /\ interrupts = 0
    /\ entry = "api"
    /\ clock = 0
    /\ theme \in VALID_THEMES \cup {OtherTheme}
    /\ rating \in VALID_USER_RATINGS
    /\ provider_name \in {"auto"} \cup ProviderNames
    /\ \E more \in IF theme = "neko" THEN BOOLEAN ELSE {FALSE} :
          upstream = [p \in ProviderNames |->
                         IF more /\ p = "nekos_best"
                         THEN <<RemoteImage(p, theme, UrlOf["waifu_pics"]),
                                RemoteImage(p, theme, UrlOf[p])>>
                         ELSE <<RemoteImage(p, theme, UrlOf[p])>>]
    /\ count \in 1..MaxCands
    /\ concurrency = 1
    /\ retries = 0
    /\ server = [u \in UrlSet |-> {O_PNG}]

\* the download command, as test_download_count_three_writes_files calls it
\* and with the default provider
InitCli ==
    /\ randomize \in BOOLEAN
    /\ environ = [RULE34_USER_ID |-> <<"4", "2">>, RULE34_API_KEY |-> <<"k", "e", "y">>]
    /\ post_tags = <<>>
    /\ shuffle = [i \in 1..MaxSent |-> i]
    /\ repl = [pc |-> "none"]
    /\ wire = NoFaults
    /\ interrupts = 0
    /\ entry = "cli"
    /\ clock = 0
    /\ theme = "catgirl"
    /\ rating = "safe"
    /\ provider_name \in {"auto", "nekosapi"}
    /\ upstream = TwoProviders(<<C_A1, C_A2, C_A3>>, <<>>)
    /\ count \in 1..MaxCands
    /\ concurrency = 1
    /\ retries = 0
    /\ server = [u \in UrlSet |-> {O_PNG}]

\* a run the user interrupts: four candidates, one of them a duplicate, from
\* a server that answers with an image, fails, or whose image cannot be
\* written
InitInterrupt ==
    /\ Plain
    /\ wire = NoFaults
    /\ interrupts = 1
    /\ entry = "api"
    /\ clock = MaxClock
    /\ theme = "catgirl"
    /\ rating = "safe"
    /\ provider_name = "nekosapi"
    /\ upstream = TwoProviders(<<C_A2, C_A1, C_A2, C_A3>>, <<>>)
    /\ count = MaxCands
    /\ concurrency \in 1..MaxConc
    /\ retries = 1
    /\ server = [u \in UrlSet |-> {O_PNG, O_500, O_WRITE_FAILS}]

\* upstream requests that go wrong: the first or the second request of every
\* provider gets a reply of one kind; every API sends three images (in one
\* reply, or one per request), for a count of one or two
InitWire ==
    /\ Plain
    /\ interrupts = 0
    /\ entry = "api"
    /\ clock = 0
    /\ \E asked \in {<<"catgirl", "safe">>, <<"femboy", "explicit">>} :
          theme = asked[1] /\ rating = asked[2]
    /\ provider_name \in {"auto"} \cup ProviderNames
    /\ \E kind \in WireKinds, at \in 1..2 :
          wire = [p \in ProviderNames |-> [i \in 1..at |-> IF i = at THEN kind ELSE "ok"]]
    /\ upstream = [p \in ProviderNames |->
                      [i \in 1..MaxSent |-> RemoteImage(p, theme, Urls[i])]]
    /\ count \in 1..2
    /\ concurrency = 1
    /\ retries = 0
    /\ server = [u \in UrlSet |-> {O_PNG}]

\* runs for femboy that select rule34, explicitly or in auto mode after
\* waifu_pics and e621 gave nothing, in every environment: each credential
\* absent, empty, blank or set
InitEnv ==
    /\ randomize = FALSE
    /\ \E names \in SUBSET {"RULE34_USER_ID", "RULE34_API_KEY"} :
          \E values \in [names -> {<<>>, <<" ", " ">>, <<" ", "4", "2">>}] :
              environ = values
    /\ post_tags = <<>>
    /\ shuffle = [i \in 1..MaxSent |-> i]
    /\ repl = [pc |-> "none"]
    /\ wire = NoFaults
    /\ interrupts = 0
    /\ entry = "api"
    /\ clock = 0
    /\ theme = "femboy"
    /\ rating = "explicit"
    /\ provider_name \in {"auto", "rule34"}
    /\ upstream = [p \in ProviderNames |->
                      IF p = "rule34"
                      THEN [i \in 1..MaxSent |-> RemoteImage(p, theme, Urls[i])]
                      ELSE <<>>]
    /\ count \in 1..2
    /\ concurrency = 1
    /\ retries = 0
    /\ server = [u \in UrlSet |-> {O_PNG}]

\* nekosapi holds the two images whose URLs have the same digest, and a
\* third; they are downloaded one at a time or two at a time
InitTwins ==
    /\ Plain
    /\ wire = NoFaults
    /\ interrupts = 0
    /\ entry = "api"
    /\ clock = 0
    /\ theme = "catgirl"
    /\ rating = "safe"
    /\ provider_name = "nekosapi"
    /\ upstream = TwoProviders(<<RemoteImage("nekosapi", theme, Twins[1]),
                                 RemoteImage("nekosapi", theme, Twins[2]), C_A1>>, <<>>)
    /\ count \in 2..3
    /\ concurrency \in 1..MaxConc
    /\ retries = 0
    /\ server = [u \in UrlSet \cup {Twins[1], Twins[2]} |-> {O_PNG}]

Init ==
    /\ \/ InitLists \/ InitWorkers \/ InitRetry \/ InitOrder \/ InitCli
       \/ InitInterrupt \/ InitWire \/ InitEnv \/ InitTwins
    /\ InitCommon

Next ==
    \/ _run_download
    \/ FetchExplicit
    \/ FetchAuto
    \/ ProviderReturns
    \/ RunStart
    \/ \E w \in Workers : Acquire(w)
    \/ \E w \in Workers : Attempt(w)
    \/ \E w \in Workers : Wake(w)
    \/ Interrupt
    \/ Return

Spec == Init /\ [][Next]_vars

-----------------------------------------------------------------------------
(* fetch_candidates of the providers, called on its own *)

\* every provider with every theme and rating, for a count of 0, 1 or 2,
\* with and without randomize
InitCalls ==
    /\ provider_name \in ProviderNames
    /\ theme \in VALID_THEMES
    /\ rating \in VALID_USER_RATINGS
    /\ count \in 0..2
    /\ randomize \in BOOLEAN
    /\ wire = NoFaults
    /\ post_tags = <<>>
    /\ shuffle = [i \in 1..MaxSent |-> i]

\* e621 and rule34 with replies of every kind to their first and second
\* request (the JSON value null and the expected object with no usable post
\* in it, as a page past the last post is, among them), from an API that
\* has MaxSent posts, for counts that do and do not reach the
\* limits, in every order random.shuffle can give
InitPaged ==
    /\ provider_name \in {"e621", "rule34"}
    /\ theme = "femboy"
    /\ rating = "explicit"
    /\ count \in {1, 2, 13, 41}
    /\ randomize \in BOOLEAN
    /\ \E replies_ \in [1..2 -> WireKinds \cup {"null", "empty"}] :
          wire = [p \in ProviderNames |-> replies_]
    /\ post_tags = <<>>
    /\ shuffle \in
          IF randomize
          THEN {f \in [1..MaxSent -> 1..MaxSent] :
                   \A i, j \in 1..MaxSent : i # j => f[i] # f[j]}
          ELSE {[i \in 1..MaxSent |-> i]}

\* every provider, for posts with few and with many tags: none, a few,
\* near the cap, the cap, and more, in one group or in several
InitTags ==
    /\ provider_name \in ProviderNames
    /\ theme \in {"catgirl", "femboy"}
    /\ rating = "any"
    /\ count \in 1..2
    /\ randomize = FALSE
    /\ wire = NoFaults
    /\ LET Tags(n) == [i \in 1..n |-> "tag"]
       IN  post_tags \in
               {<<>>, <<Tags(3)>>, <<Tags(TAG_CAP - 3)>>, <<Tags(TAG_CAP - 2)>>,
                <<Tags(TAG_CAP)>>, <<Tags(TAG_CAP + 1)>>, <<Tags(20), Tags(20)>>,
                <<Tags(20), Tags(20), Tags(20)>>}
    /\ shuffle = [i \in 1..MaxSent |-> i]

\* a call of fetch_candidates on its own: no runner, no shell, both
\* credentials of rule34 in the environment, and MaxSent posts at every API
ProviderInit ==
    /\ \/ InitCalls \/ InitPaged \/ InitTags
    /\ entry = "call"
    /\ interrupts = 0
    /\ clock = 0
    /\ concurrency = 1
    /\ retries = 0
    /\ server = [u \in UrlSet |-> {O_PNG}]
    /\ repl = [pc |-> "none"]
    /\ environ = [RULE34_USER_ID |-> <<"4", "2">>, RULE34_API_KEY |-> <<"k", "e", "y">>]
    /\ upstream = [p \in ProviderNames |-> [i \in 1..MaxSent |-> RemoteImage(p, theme, Urls[i])]]
    /\ InitCommon

ProviderSpec == ProviderInit /\ [][Call]_vars

-----------------------------------------------------------------------------
(* cli.py: the interactive REPL of `main` *)

MaxCommands == 2    \* the number of lines the REPL reads

\* the values of ProviderChoice, RatingChoice and ThemeChoice, as typed
Spelling ==
    [auto |-> <<"a", "u", "t", "o">>,
     waifu_pics |-> <<"w", "a", "i", "f", "u", "_", "p", "i", "c", "s">>,
     nekosapi |-> <<"n", "e", "k", "o", "s", "a", "p", "i">>,
     nekos_best |-> <<"n", "e", "k", "o", "s", "_", "b", "e", "s", "t">>,
     nekos_life |-> <<"n", "e", "k", "o", "s", "_", "l", "i", "f", "e">>,
     nekobot |-> <<"n", "e", "k", "o", "b", "o", "t">>,
     e621 |-> <<"e", "6", "2", "1">>,
     rule34 |-> <<"r", "u", "l", "e", "3", "4">>,
     any |-> <<"a", "n", "y">>,
     safe |-> <<"s", "a", "f", "e">>,
     suggestive |-> <<"s", "u", "g", "g", "e", "s", "t", "i", "v", "e">>,
     borderline |-> <<"b", "o", "r", "d", "e", "r", "l", "i", "n", "e">>,
     explicit |-> <<"e", "x", "p", "l", "i", "c", "i", "t">>,
     catgirl |-> <<"c", "a", "t", "g", "i", "r", "l">>,
     neko |-> <<"n", "e", "k", "o">>,
     kitsune |-> <<"k", "i", "t", "s", "u", "n", "e">>,
     femboy |-> <<"f", "e", "m", "b", "o", "y">>]

\* Enum(normalized): the member with this value, or ValueError
EnumOf(choices, normalized) ==
    IF \E c \in choices : Spelling[c] = normalized
    THEN [raised |-> None, value |-> CHOOSE c \in choices : Spelling[c] = normalized]
    ELSE [raised |-> Some("ValueError"), value |-> ""]

\* the number a string of decimal digits denotes
RECURSIVE DecimalValue(_)
DecimalValue(s) ==
    LET digits == <<"0", "1", "2", "3", "4", "5", "6", "7", "8", "9">>
    IN  IF s = <<>> THEN 0
        ELSE 10 * DecimalValue(SubSeq(s, 1, Len(s) - 1))
               + (CHOOSE d \in 1..10 : digits[d] = s[Len(s)]) - 1

\* int(raw_value) for a decimal literal: surrounding whitespace and a sign
\* are accepted, anything else but digits raises ValueError
PyInt(raw_value) ==
    LET text == Strip(raw_value)
        signed == text # <<>> /\ Head(text) \in {"+", "-"}
        body == IF signed THEN Tail(text) ELSE text
        IsDigits(s) ==
            /\ s # <<>>
            /\ \A i \in 1..Len(s) : s[i] \in {"0", "1", "2", "3", "4", "5", "6", "7", "8", "9"}
    IN  IF IsDigits(body)
        THEN [raised |-> None,
              value |-> IF signed /\ Head(text) = "-" THEN 0 - DecimalValue(body)
                                                      ELSE DecimalValue(body)]
        ELSE [raised |-> Some("ValueError"), value |-> 0]

\* float(raw_value) for a literal without exponent: surrounding whitespace,
\* a sign and any case are accepted; 'nan', 'inf' and 'infinity' are
\* literals; digits with at most one point denote a number; anything else
\* raises ValueError.  A float is [kind, num, den]: the number num/den, an
\* infinity with the sign of num, or not a number
PyFloat(raw_value) ==
    LET text == Lower(Strip(raw_value))
        signed == text # <<>> /\ Head(text) \in {"+", "-"}
        body == IF signed THEN Tail(text) ELSE text
        sign == IF signed /\ Head(text) = "-" THEN 0 - 1 ELSE 1
        whole == SplitHead(body, ".")
        fraction == IF IndexOf(body, ".") = 0 THEN <<>> ELSE SplitRest(body, ".")
        digits == whole \o fraction
        IsDigits(s) ==
            /\ s # <<>>
            /\ \A i \in 1..Len(s) : s[i] \in {"0", "1", "2", "3", "4", "5", "6", "7", "8", "9"}
    IN  IF body = <<"n", "a", "n">>
        THEN [raised |-> None, value |-> [kind |-> "nan", num |-> 0, den |-> 1]]
        ELSE IF body \in {<<"i", "n", "f">>, <<"i", "n", "f", "i", "n", "i", "t", "y">>}
        THEN [raised |-> None, value |-> [kind |-> "inf", num |-> sign, den |-> 1]]
        ELSE IF IsDigits(digits) /\ IndexOf(fraction, ".") = 0
        THEN [raised |-> None,
              value |-> [kind |-> "num", num |-> sign * DecimalValue(digits),
                         den |-> DecimalValue(<<"1">> \o [i \in 1..Len(fraction) |-> "0"])]]
        ELSE [raised |-> Some("ValueError"),
              value |-> [kind |-> "nan", num |-> 0, den |-> 1]]

\* _validate_range raises BadParameter: value < minimum or value > maximum,
\* for a number [kind, num, den] (an int n is the number n/1); every
\* comparison with nan is False
_validate_range(value, minimum, maximum) ==
    CASE value.kind = "nan" -> FALSE
      [] value.kind = "inf" -> value.num < 0 \/ value.num > 0
      [] OTHER -> \/ value.num < minimum * value.den
                  \/ value.num > maximum * value.den

_parse_provider(value) ==
    LET choice == EnumOf({"auto"} \cup ProviderNames, Lower(Strip(value)))
    IN  IF choice.raised # None THEN [choice EXCEPT !.raised = Some("BadParameter")]
        ELSE choice

_parse_rating(value) ==
    LET choice == EnumOf(VALID_USER_RATINGS, Lower(Strip(value)))
    IN  IF choice.raised # None THEN [choice EXCEPT !.raised = Some("BadParameter")]
        ELSE choice

\* _parse_theme: the plurals catgirls, nekos and femboys are aliases
_parse_theme(value) ==
    LET normalized == Lower(Strip(value))
        aliased == IF normalized \in {Spelling["catgirl"] \o <<"s">>,
                                      Spelling["neko"] \o <<"s">>,
                                      Spelling["femboy"] \o <<"s">>}
                   THEN SubSeq(normalized, 1, Len(normalized) - 1)
                   ELSE normalized
        choice == EnumOf(VALID_THEMES, aliased)
    IN  IF choice.raised # None THEN [choice EXCEPT !.raised = Some("BadParameter")]
        ELSE choice

_parse_bool(value) ==
    LET normalized == Lower(Strip(value))
    IN  IF normalized \in {<<"1">>, <<"t", "r", "u", "e">>, <<"y", "e", "s">>, <<"y">>, <<"o", "n">>}
        THEN [raised |-> None, value |-> TRUE]
        ELSE IF normalized \in {<<"0">>, <<"f", "a", "l", "s", "e">>, <<"n", "o">>, <<"n">>, <<"o", "f", "f">>}
        THEN [raised |-> None, value |-> FALSE]
        ELSE [raised |-> Some("BadParameter"), value |-> FALSE]

\* _update_setting: the settings afterwards, and the exception raised, if
\* any.  An int setting is int(raw_value), _validate_range, then the
\* assignment; a setting with a parse function is the exception of the
\* function, or the assignment
_update_setting(settings, field, raw_value) ==
    LET key == Lower(Strip(field))
        Updated(settings_, raised) == [settings |-> settings_, raised |-> raised]
        IntSetting(name, minimum, maximum) ==
            LET parsed == PyInt(raw_value)
            IN  IF parsed.raised # None THEN Updated(settings, parsed.raised)
                ELSE IF _validate_range([kind |-> "num", num |-> parsed.value, den |-> 1],
                                        minimum, maximum)
                THEN Updated(settings, Some("BadParameter"))
                ELSE Updated([settings EXCEPT ![name] = parsed.value], None)
        ParsedSetting(name, parsed) ==
            IF parsed.raised # None THEN Updated(settings, parsed.raised)
            ELSE Updated([settings EXCEPT ![name] = parsed.value], None)
    IN  CASE key = <<"c", "o", "u", "n", "t">> -> IntSetting("count", 1, 200)
          [] key = <<"p", "r", "o", "v", "i", "d", "e", "r">> -> ParsedSetting("provider", _parse_provider(raw_value))
          [] key = <<"t", "h", "e", "m", "e">> -> ParsedSetting("theme", _parse_theme(raw_value))
          [] key = <<"r", "a", "t", "i", "n", "g">> -> ParsedSetting("rating", _parse_rating(raw_value))
          [] key \in {<<"r", "a", "n", "d", "o", "m", "i", "z", "e">>, <<"r", "a", "n", "d", "o", "m">>, <<"r">>} ->
                ParsedSetting("randomize", _parse_bool(raw_value))
          [] key = <<"o", "u", "t">> -> Updated([settings EXCEPT !.out = raw_value], None)
          [] key = <<"c", "o", "n", "c", "u", "r", "r", "e", "n", "c", "y">> -> IntSetting("concurrency", 1, 16)
          [] key = <<"r", "e", "t", "r", "i", "e", "s">> -> IntSetting("retries", 0, 5)
          [] key = <<"t", "i", "m", "e", "o", "u", "t">> ->
                LET parsed == PyFloat(raw_value)
                IN  IF parsed.raised # None THEN Updated(settings, parsed.raised)
                    ELSE IF _validate_range(parsed.value, 1, 120)
                    THEN Updated(settings, Some("BadParameter"))
                    ELSE Updated([settings EXCEPT !.timeout = parsed.value], None)
          [] key = <<"v", "e", "r", "b", "o", "s", "e">> -> ParsedSetting("verbose", _parse_bool(raw_value))
          [] OTHER -> Updated(settings, Some("BadParameter"))

\* " ".join(parts)
RECURSIVE Join(_)
Join(parts) ==
    IF parts = <<>> THEN <<>>
    ELSE IF Len(parts) = 1 THEN parts[1]
    ELSE parts[1] \o <<" ">> \o Join(Tail(parts))

\* the settings `main` starts with
DefaultSettings ==
    [count |-> 1, provider |-> "auto", theme |-> "catgirl", rating |-> "any",
     randomize |-> FALSE, out |-> <<".", "/", "d", "o", "w", "n", "l", "o", "a", "d", "s">>, concurrency |-> 4,
     retries |-> 3, timeout |-> [kind |-> "num", num |-> 200, den |-> 10],
     verbose |-> FALSE]

\* the lines typed, as shlex.split gives them: `set` lines, `run` lines,
\* the other commands, a word that is no command, a line with an open
\* quotation mark, and the end of the input (no parts)
Lines ==
    {<<<<"s", "e", "t">>, <<"c", "o", "u", "n", "t">>, <<"0">>>>,
     <<<<"s", "e", "t">>, <<"c", "o", "u", "n", "t">>, <<"1">>>>,
     <<<<"s", "e", "t">>, <<"c", "o", "u", "n", "t">>, <<"2", "0", "0">>>>,
     <<<<"s", "e", "t">>, <<"c", "o", "u", "n", "t">>, <<"2", "0", "1">>>>,
     <<<<"s", "e", "t">>, <<"c", "o", "u", "n", "t">>, <<"a", "b", "c">>>>,
     <<<<"s", "e", "t">>, <<"c", "o", "u", "n", "t">>, <<"-", "1">>>>,
     <<<<"s", "e", "t">>, <<"c", "o", "u", "n", "t">>, <<"2", ".", "5">>>>,
     <<<<"s", "e", "t">>, <<"c", "o", "u", "n", "t">>, <<"+", "5">>>>,
     <<<<"s", "e", "t">>, <<"c", "o", "n", "c", "u", "r", "r", "e", "n", "c", "y">>, <<"0">>>>,
     <<<<"s", "e", "t">>, <<"c", "o", "n", "c", "u", "r", "r", "e", "n", "c", "y">>, <<"1">>>>,
     <<<<"s", "e", "t">>, <<"c", "o", "n", "c", "u", "r", "r", "e", "n", "c", "y">>, <<"1", "6">>>>,
     <<<<"s", "e", "t">>, <<"c", "o", "n", "c", "u", "r", "r", "e", "n", "c", "y">>, <<"1", "7">>>>,
     <<<<"s", "e", "t">>, <<"c", "o", "n", "c", "u", "r", "r", "e", "n", "c", "y">>, <<"x">>>>,
     <<<<"s", "e", "t">>, <<"r", "e", "t", "r", "i", "e", "s">>, <<"-", "1">>>>,
     <<<<"s", "e", "t">>, <<"r", "e", "t", "r", "i", "e", "s">>, <<"0">>>>,
     <<<<"s", "e", "t">>, <<"r", "e", "t", "r", "i", "e", "s">>, <<"5">>>>,
     <<<<"s", "e", "t">>, <<"r", "e", "t", "r", "i", "e", "s">>, <<"6">>>>,
     <<<<"s", "e", "t">>, <<"r", "e", "t", "r", "i", "e", "s">>, <<"m", "a", "n", "y">>>>,
     <<<<"s", "e", "t">>, <<"t", "i", "m", "e", "o", "u", "t">>, <<"0", ".", "5">>>>,
     <<<<"s", "e", "t">>, <<"t", "i", "m", "e", "o", "u", "t">>, <<"1">>>>,
     <<<<"s", "e", "t">>, <<"t", "i", "m", "e", "o", "u", "t">>, <<"1", ".", "0">>>>,
     <<<<"s", "e", "t">>, <<"t", "i", "m", "e", "o", "u", "t">>, <<"1", "2", "0">>>>,
     <<<<"s", "e", "t">>, <<"t", "i", "m", "e", "o", "u", "t">>, <<"1", "2", "0", ".", "5">>>>,
     <<<<"s", "e", "t">>, <<"t", "i", "m", "e", "o", "u", "t">>, <<"n", "a", "n">>>>,
     <<<<"s", "e", "t">>, <<"t", "i", "m", "e", "o", "u", "t">>, <<"N", "a", "N">>>>,
     <<<<"s", "e", "t">>, <<"t", "i", "m", "e", "o", "u", "t">>, <<"i", "n", "f">>>>,
     <<<<"s", "e", "t">>, <<"t", "i", "m", "e", "o", "u", "t">>, <<"-", "i", "n", "f">>>>,
     <<<<"s", "e", "t">>, <<"t", "i", "m", "e", "o", "u", "t">>, <<"s", "o", "o", "n">>>>,
     <<<<"s", "e", "t">>, <<"t", "i", "m", "e", "o", "u", "t">>, <<"-", "3">>>>,
     <<<<"s", "e", "t">>, <<"p", "r", "o", "v", "i", "d", "e", "r">>, <<"a", "u", "t", "o">>>>,
     <<<<"s", "e", "t">>, <<"p", "r", "o", "v", "i", "d", "e", "r">>, <<"E", "6", "2", "1">>>>,
     <<<<"s", "e", "t">>, <<"p", "r", "o", "v", "i", "d", "e", "r">>, <<"r", "u", "l", "e", "3", "4">>>>,
     <<<<"s", "e", "t">>, <<"p", "r", "o", "v", "i", "d", "e", "r">>, <<"b", "i", "n", "g">>>>,
     <<<<"s", "e", "t">>, <<"t", "h", "e", "m", "e">>, <<"f", "e", "m", "b", "o", "y", "s">>>>,
     <<<<"s", "e", "t">>, <<"t", "h", "e", "m", "e">>, <<"n", "e", "k", "o">>>>,
     <<<<"s", "e", "t">>, <<"t", "h", "e", "m", "e">>, <<"C", "a", "t", "g", "i", "r", "l">>>>,
     <<<<"s", "e", "t">>, <<"t", "h", "e", "m", "e">>, <<"d", "o", "g">>>>,
     <<<<"s", "e", "t">>, <<"r", "a", "t", "i", "n", "g">>, <<"s", "a", "f", "e">>>>,
     <<<<"s", "e", "t">>, <<"r", "a", "t", "i", "n", "g">>, <<"e", "x", "p", "l", "i", "c", "i", "t">>>>,
     <<<<"s", "e", "t">>, <<"r", "a", "t", "i", "n", "g">>, <<"n", "s", "f", "w">>>>,
     <<<<"s", "e", "t">>, <<"r", "a", "n", "d", "o", "m", "i", "z", "e">>, <<"t", "r", "u", "e">>>>,
     <<<<"s", "e", "t">>, <<"r", "a", "n", "d", "o", "m", "i", "z", "e">>, <<"m", "a", "y", "b", "e">>>>,
     <<<<"s", "e", "t">>, <<"r">>, <<"o", "n">>>>,
     <<<<"s", "e", "t">>, <<"r">>, <<"o", "f", "f">>>>,
     <<<<"s", "e", "t">>, <<"o", "u", "t">>, <<"p", "i", "c", "s">>>>,
     <<<<"s", "e", "t">>, <<"v", "e", "r", "b", "o", "s", "e">>, <<"y", "e", "s">>>>,
     <<<<"s", "e", "t">>, <<"v", "e", "r", "b", "o", "s", "e">>, <<"2">>>>,
     <<<<"s", "e", "t">>, <<"s", "i", "z", "e">>, <<"5">>>>,
     <<<<"s", "e", "t">>, <<"C", "O", "U", "N", "T">>, <<"7">>>>,
     <<<<"s", "e", "t">>, <<"c", "o", "u", "n", "t">>>>,
     <<<<"s", "e", "t">>, <<"c", "o", "u", "n", "t">>, <<"5">>, <<"6">>>>,
     <<<<"S", "E", "T">>, <<"r", "e", "t", "r", "i", "e", "s">>, <<"9">>>>,
     <<<<"r", "u", "n">>>>,
     <<<<"R", "U", "N">>, <<"n", "o", "w">>>>,
     <<<<"e", "x", "i", "t">>>>,
     <<<<"q", "u", "i", "t">>>>,
     <<<<"h", "e", "l", "p">>>>,
     <<<<"c", "l", "e", "a", "r">>>>,
     <<<<"s", "h", "o", "w">>>>,
     <<<<"p", "r", "o", "v", "i", "d", "e", "r", "s">>>>,
     <<<<"c", "a", "t", "e", "g", "o", "r", "i", "e", "s">>>>,
     <<<<"f", "r", "o", "b", "n", "i", "c", "a", "t", "e">>>>,
     <<<<"\"", "m", "y">>>>,
     <<>>}

\* one turn of the loop of main, from the prompt to the next prompt or to
\* the end of the REPL.  The end of the input, exit and quit print Goodbye
\* and raise typer.Exit(code=0).  A line with an open quotation mark makes
\* shlex.split raise ValueError.  `set` raises BadParameter for fewer than
\* three parts and calls _update_setting with the second part and the rest
\* joined otherwise.  `run` calls _run_download with the settings; the
\* TypeError of the constructor of DownloadRunner is not among the
\* exceptions the loop catches and ends the REPL.  ValueError and
\* BadParameter are caught and printed as "Error: ...".  help, clear, show,
\* providers and categories print and change nothing; any other word is an
\* unknown command.
ReplLine ==
    /\ rpc = "repl"
    /\ repl.pc = "prompt"
    /\ repl.read < MaxCommands
    /\ \E parts \in Lines :
          LET command == Lower(parts[1])
              read == [repl EXCEPT !.last = parts, !.before = repl.settings,
                                   !.read = @ + 1]
              updated == _update_setting(repl.settings, parts[2],
                                         Join(SubSeq(parts, 3, Len(parts))))
          IN  repl' =
                IF parts = <<>> \/ command \in {<<"e", "x", "i", "t">>, <<"q", "u", "i", "t">>}
                THEN [read EXCEPT !.output = "goodbye", !.pc = "exited"]
                ELSE IF Head(parts[1]) = "\""
                THEN [read EXCEPT !.output = "error"]
                ELSE IF command \in {<<"h", "e", "l", "p">>, <<"c", "l", "e", "a", "r">>, <<"s", "h", "o", "w">>, <<"p", "r", "o", "v", "i", "d", "e", "r", "s">>, <<"c", "a", "t", "e", "g", "o", "r", "i", "e", "s">>}
                THEN [read EXCEPT !.output = "printed"]
                ELSE IF command = <<"s", "e", "t">>
                THEN IF Len(parts) < 3 \/ updated.raised # None
                     THEN [read EXCEPT !.output = "error"]
                     ELSE [read EXCEPT !.output = "updated",
                                       !.settings = updated.settings]
                ELSE IF command = <<"r", "u", "n">>
                THEN [read EXCEPT !.output = "starting",
                                  !.handed = Some(repl.settings),
                                  !.pc = IF ConstructorRaises(RunDownloadKeywords)
                                         THEN "raised" ELSE "prompt"]
                ELSE [read EXCEPT !.output = "unknown command"]
    /\ UNCHANGED <<interrupts, count, concurrency, retries, upstream, wire, server,
                   rpc, candidates, unique_candidates, results, dl_results, sem,
                   wpc, attempt, replies, delays, dirs, temps, files, clock,
                   provider_name, rating, theme, warnings, queries, answers,
                   awaiting, collected, remaining, tried, entry, exit_status,
                   randomize, environ, post_tags, shuffle>>

\* the REPL is started with no subcommand: before its first prompt, with
\* the lines read, the last line and the settings before it, what was
\* printed for it, and the settings handed to _run_download
ReplInit ==
    /\ entry = "repl"
    /\ repl = [pc |-> "prompt", settings |-> DefaultSettings,
               before |-> DefaultSettings, last |-> <<>>, output |-> "settings",
               handed |-> None, read |-> 0]
    /\ interrupts = 0
    /\ clock = 0
    /\ count = DefaultSettings.count
    /\ provider_name = DefaultSettings.provider
    /\ theme = DefaultSettings.theme
    /\ rating = DefaultSettings.rating
    /\ randomize = DefaultSettings.randomize
    /\ concurrency = DefaultSettings.concurrency
    /\ retries = DefaultSettings.retries
    /\ environ = [RULE34_USER_ID |-> <<"4", "2">>, RULE34_API_KEY |-> <<"k", "e", "y">>]
    /\ wire = NoFaults
    /\ upstream = [p \in ProviderNames |-> [i \in 1..MaxSent |-> RemoteImage(p, theme, Urls[i])]]
    /\ post_tags = <<>>
    /\ shuffle = [i \in 1..MaxSent |-> i]
    /\ server = [u \in UrlSet |-> {O_PNG}]
    /\ InitCommon

ReplSpec == ReplInit /\ [][ReplLine]_vars

-----------------------------------------------------------------------------

\* a call of fetch_candidates of e621 or rule34 with randomize=true that
\* sent its request and returned
RandomizedCallReturned ==
    /\ entry = "call"
    /\ rpc = "returned"
    /\ provider_name \in {"e621", "rule34"}
    /\ queries[1].randomize
    /\ answers[1].requests >= 1

\* the candidates the reply to the n-th request of the provider holds
YieldOf(n) ==
    IF WireAt(provider_name, n) = "ok" THEN upstream[provider_name] ELSE <<>>

\* C31: with randomize=true, e621 and rule34 send exactly one more request,
\* with the same parameters less the random page / pid, when the randomized
\* request yields no usable candidate, no second request when it yields at
\* least one, and never more than two requests
C31_FallsBackOnce ==
    RandomizedCallReturned =>
        /\ YieldOf(1) = <<>> =>
              /\ answers[1].requests = 2
              /\ answers[1].params[2] = [answers[1].params[1] EXCEPT !.random = FALSE]
        /\ YieldOf(1) # <<>> => answers[1].requests = 1
        /\ answers[1].requests <= 2

\* C31, what the code does: the second request is sent exactly when the
\* payload of the randomized request arrived and holds no candidate; a
\* randomized request that failed, or whose payload is null, ends the
\* fetch with [] after one request
C31_FallsBackOnEmptyPayload ==
    RandomizedCallReturned =>
        /\ answers[1].requests = 2 <=>
              ~PayloadIsNone(WireAt(provider_name, 1)) /\ YieldOf(1) = <<>>
        /\ answers[1].requests = 2 =>
              /\ answers[1].params[2] = [answers[1].params[1] EXCEPT !.random = FALSE]
              /\ answers[1].params[1].random /\ ~answers[1].params[2].random
              /\ answers[1].params[2].limit = answers[1].params[1].limit
        /\ answers[1].requests <= 2

\* C31: the randomized request failed while the API had posts, and the
\* fetch gave up after that one request
C31_Witness ==
    /\ RandomizedCallReturned
    /\ WireAt(provider_name, 1) = "timeout"
    /\ WireAt(provider_name, 2) = "ok"
    /\ upstream[provider_name] # <<>>
    /\ answers[1].requests = 1
    /\ answers[1].returned = <<>>

\* C31: the randomized request gave an empty page and the request without
\* the random page gave the candidates
C31_FallbackWitness ==
    /\ RandomizedCallReturned
    /\ WireAt(provider_name, 1) = "empty"
    /\ answers[1].requests = 2
    /\ answers[1].returned # <<>>

\* runs of every entry point, with and without an interrupt, for every
\* number of candidates up to MaxCands, with and without retries, over a
\* server that answers with an image or fails with a 500
InitLive ==
    /\ Plain
    /\ wire = NoFaults
    /\ interrupts \in {0, 1}
    /\ entry \in {"api", "cli"}
    /\ clock = MaxClock
    /\ theme = "catgirl"
    /\ rating = "safe"
    /\ provider_name \in {"auto", "nekosapi"}
    /\ upstream = TwoProviders(<<C_A2, C_A1, C_A3>>, <<C_W4>>)
    /\ count \in 1..MaxCands
    /\ concurrency \in 1..MaxConc
    /\ retries \in 0..1
    /\ server = [u \in UrlSet |-> {O_PNG, O_500}]

\* The event loop runs every task that can run: a worker waiting for a free
\* slot enters `async with semaphore`; a request is answered or ends by the
\* client's httpx.Timeout; anyio.sleep returns; the task group is left when
\* its workers are done.  The weak fairness of Attempt is written out, with
\* the guard of Attempt as its enabling condition: server[u] is never empty,
\* and every step of Attempt adds a reply.
Fairness ==
    /\ WF_vars(\E w \in Workers : Acquire(w))
    /\ \/ []<>(~(rpc = "download" /\ \E w \in Workers : wpc[w] = "get"))
       \/ []<><<\E w \in Workers : Attempt(w)>>_vars
    /\ WF_vars(\E w \in Workers : Wake(w))
    /\ WF_vars(Return)

LiveInit ==
    /\ InitLive
    /\ InitCommon

FairSpec == LiveInit /\ [][Next]_vars /\ Fairness

-----------------------------------------------------------------------------
(* Properties *)

InFlight == {w \in Workers : wpc[w] \in {"get", "sleep"}}

\* the positions in the results of download_candidates that hold a result
\* for the candidate of worker w
ResultIdx(w) ==
    {i \in 1..Len(dl_results) :
        /\ dl_results[i].url = unique_candidates[w].url
        /\ dl_results[i].provider = unique_candidates[w].provider}

\* the result recorded for worker w's candidate
ResultOf(w) == dl_results[CHOOSE i \in ResultIdx(w) : TRUE]

\* the workers whose candidate equals that of worker w
SameCandidate(w) ==
    {v \in Workers :
        /\ unique_candidates[v].url = unique_candidates[w].url
        /\ unique_candidates[v].provider = unique_candidates[w].provider}

\* C1: when download_candidates has returned, its result list holds exactly
\* one DownloadResult for each input candidate: none is missing, none is
\* there twice, whatever the interleaving and the concurrency; the order is
\* free.
C1_OneResultPerCandidate ==
    rpc = "done" =>
        /\ Len(dl_results) = Len(unique_candidates)
        /\ \A w \in Workers :
              Cardinality(ResultIdx(w)) = Cardinality(SameCandidate(w))

\* C1 witness: a run of three candidates has returned, some download failed,
\* and the results are not in the order of the candidates.
C1_Witness ==
    /\ rpc = "done"
    /\ Len(unique_candidates) = 3
    /\ dl_results[1].url # unique_candidates[1].url
    /\ \E i \in 1..Len(dl_results) : dl_results[i].status = "failed"
    /\ \E i \in 1..Len(dl_results) : dl_results[i].status = "ok"

\* C2: at every moment at most `concurrency` candidates are between
\* acquiring and releasing the semaphore; a candidate that has not acquired
\* it has issued no request; and a candidate has released its slot exactly
\* when its result, ok or failed, has been recorded.
C2_BoundedInFlight ==
    rpc # "fetch" /\ unique_candidates # <<>> =>
        /\ Cardinality(InFlight) <= concurrency
        /\ sem = concurrency - Cardinality(InFlight)
        /\ \A w \in Workers :
              /\ wpc[w] = "start" => replies[w] = <<>>
              /\ wpc[w] = "done" <=> ResultIdx(w) # {}

\* C2 witness: every slot is taken, one candidate waits for a slot, and one
\* candidate has released its slot with a failed result.
C2_Witness ==
    /\ rpc = "download"
    /\ Cardinality(InFlight) = concurrency
    /\ \E w \in Workers : wpc[w] = "start"
    /\ \E w \in Workers : wpc[w] = "done" /\ ResultOf(w).status = "failed"

\* the failures the retry contract calls retryable: a timeout or
\* connection-level error, or a response with status >= 500
IsTransient(outcome) ==
    \/ outcome.net \in {"ReadTimeout", "ConnectError"}
    \/ outcome.net = "response" /\ outcome.status >= 500

\* str() of the exception a transient failure raises
TransientMessage(outcome) ==
    IF outcome.net = "response"
    THEN [text |-> "HTTP status error", status |-> outcome.status, arg |-> <<>>]
    ELSE Str(NetExc(outcome.net))

\* C3: a candidate gets at most retries + 1 GET requests; when every attempt
\* fails with a retryable error it gets exactly retries + 1, and its result
\* is failed with the message of the last attempt's exception; with
\* retries = 0 a timeout gives a failed result after one attempt and no sleep.
C3_AttemptsBounded ==
    \A w \in Workers :
        /\ Len(replies[w]) <= retries + 1
        /\ (wpc[w] = "done" /\ \A i \in 1..Len(replies[w]) : IsTransient(replies[w][i]))
              => /\ Len(replies[w]) = retries + 1
                 /\ ResultOf(w).status = "failed"
                 /\ ResultOf(w).path = None
                 /\ ResultOf(w).error =
                        Some(TransientMessage(replies[w][Len(replies[w])]))
        /\ (wpc[w] = "done" /\ retries = 0 /\ replies[w] = <<O_TIMEOUT>>)
              => /\ ResultOf(w).status = "failed"
                 /\ delays[w] = <<>>

\* C3 witness: with retries = 2 a candidate has failed after three attempts
\* that ended with different retryable errors.
C3_Witness ==
    \E w \in Workers :
        /\ wpc[w] = "done"
        /\ retries = 2
        /\ replies[w] = <<O_500, O_TIMEOUT, O_500>>
        /\ ResultOf(w).status = "failed"

-----------------------------------------------------------------------------

\* attempt number i of worker w was repeated: another attempt followed it, or
\* the worker sleeps before the next one
Repeated(w, i) == i < Len(replies[w]) \/ (i = Len(replies[w]) /\ wpc[w] = "sleep")

\* the content types of the model that do not start with image/, whatever
\* the case of their letters
NonImageTypes == {CT_HTML, CT_PADDED, <<>>}

\* a failure the retry contract calls permanent: a 4xx status, a 2xx response
\* that is not an image, or an I/O error while the image is stored
IsPermanent(outcome) ==
    /\ outcome.net = "response"
    /\ \/ outcome.status >= 400 /\ outcome.status <= 499
       \/ /\ IsSuccess(outcome.status)
          /\ \/ HeaderContentType(outcome) \in NonImageTypes
             \/ outcome.fs # "none"

\* worker w ended with its last attempt: failed, no sleep after it
EndedFailed(w) ==
    /\ wpc[w] = "done"
    /\ ResultOf(w).status = "failed"
    /\ ResultOf(w).path = None
    /\ Len(delays[w]) = Len(replies[w]) - 1

\* C4 as claimed: an attempt is repeated only after a timeout or
\* connection-level error or a status >= 500; every other failure, any other
\* request error among them, ends the candidate at once with status failed
\* and without a sleep.
C4_Original ==
    \A w \in Workers :
        /\ \A i \in 1..Len(replies[w]) : Repeated(w, i) => IsTransient(replies[w][i])
        /\ (/\ replies[w] # <<>>
            /\ LET last == replies[w][Len(replies[w])]
               IN  IsPermanent(last) \/ last.net = "TooManyRedirects")
              => EndedFailed(w)

\* C4 as amended: an attempt is repeated only after a request error of httpx
\* (a timeout, a connection-level error, or any other RequestError such as
\* too many redirects) or a status >= 500; every other failure (4xx,
\* non-image content type, I/O error) ends the candidate at once with status
\* failed and without a sleep, whatever retries is.
C4_RetryOnlyRequestErrorOr5xx ==
    \A w \in Workers :
        /\ \A i \in 1..Len(replies[w]) :
              Repeated(w, i) =>
                  IsTransient(replies[w][i]) \/ replies[w][i].net = "TooManyRedirects"
        /\ (replies[w] # <<>> /\ IsPermanent(replies[w][Len(replies[w])]))
              => EndedFailed(w)

\* C4 witness: with retries = 5 a candidate has ended after one attempt,
\* which got a 404 or could not write its file.
C4_Witness ==
    \E w \in Workers :
        /\ retries = MaxRetries
        /\ \/ replies[w] = <<O_404>> /\ EndedFailed(w)
           \/ replies[w] = <<O_WRITE_FAILS>> /\ EndedFailed(w)

Is500(outcome) == outcome.net = "response" /\ outcome.status = 500

\* a 200 response with an image/* content type, stored without an I/O error
IsImage200(outcome) ==
    /\ outcome.net = "response"
    /\ outcome.status = 200
    /\ outcome.content_type \in {Some(CT_PNG), Some(CT_PNG_UPPER), Some(CT_BARE)}
    /\ outcome.fs = "none"

\* C5: for every retries value r, a candidate whose first r attempts return
\* HTTP 500 is attempted again each time, and when attempt r + 1 returns 200
\* with an image content type (and the image is stored without an I/O error)
\* it has got exactly r + 1 GET requests and one result, with status ok and
\* a path that names a file holding the body of the last response.
C5_RetryThenSuccess ==
    \A w \in Workers :
        /\ (Len(replies[w]) <= retries /\ \A i \in 1..Len(replies[w]) : Is500(replies[w][i]))
              => wpc[w] # "done"
        /\ (/\ Len(replies[w]) = retries + 1
            /\ \A i \in 1..retries : Is500(replies[w][i])
            /\ IsImage200(replies[w][retries + 1]))
              => /\ wpc[w] = "done"
                 /\ Cardinality(ResultIdx(w)) = 1
                 /\ ResultOf(w).status = "ok"
                 /\ ResultOf(w).error = None
                 /\ ResultOf(w).path # None
                 /\ ResultOf(w).path[1] \in DOMAIN files
                 /\ files[ResultOf(w).path[1]] = replies[w][retries + 1].body

\* C5 witness: with retries = 5, five 500s and then an image
C5_Witness ==
    \E w \in Workers :
        /\ retries = MaxRetries
        /\ replies[w] = <<O_500, O_500, O_500, O_500, O_500, O_PNG_UPPER>>
        /\ ResultOf(w).status = "ok"

\* the files and temp files written for worker w's candidate
FilesOf(w) ==
    {p \in DOMAIN files : p.name.digest = UrlDigest(unique_candidates[w].url)}
TempsOf(w) ==
    {t \in temps : t.stem.digest = UrlDigest(unique_candidates[w].url)}

\* C6: a 2xx response whose content type does not start with image/
\* (whatever the case), or is absent, ends the candidate with that attempt:
\* no sleep and no attempt follows (one attempt in all when it is the first
\* response), no file is written, and the result is failed with a message
\* that names the content type, or 'missing'; whatever retries is.
C6_NonImageRejected ==
    \A w \in Workers : \A i \in 1..Len(replies[w]) :
        LET outcome == replies[w][i]
            content_type == HeaderContentType(outcome)
        IN  (/\ outcome.net = "response"
             /\ IsSuccess(outcome.status)
             /\ content_type \in NonImageTypes)
              => /\ i = Len(replies[w])
                 /\ EndedFailed(w)
                 /\ FilesOf(w) = {}
                 /\ TempsOf(w) = {}
                 /\ ResultOf(w).error =
                        Some([text |-> "Non-image content type: ", status |-> 0,
                              arg |-> IF content_type = <<>> THEN MISSING
                                                             ELSE content_type])

\* C6 witness: with retries = 5 a candidate has failed after its only
\* attempt, whose response had no content type
C6_Witness ==
    \E w \in Workers :
        /\ retries = MaxRetries
        /\ replies[w] = <<O_NO_CT>>
        /\ wpc[w] = "done"
        /\ ResultOf(w).error[1].arg = MISSING

-----------------------------------------------------------------------------

\* the positions of seq that hold the first occurrence of their URL, and
\* those that hold a later one
FirstIdx(seq) == {i \in 1..Len(seq) : \A j \in 1..(i - 1) : seq[j].url # seq[i].url}
LaterIdx(seq) == {i \in 1..Len(seq) : \E j \in 1..(i - 1) : seq[j].url = seq[i].url}

\* the k-th smallest element of a set of numbers
Kth(I, k) == CHOOSE i \in I : Cardinality({j \in I : j < i}) = k - 1

\* the elements of seq at the positions I, in the order of seq
Pick(seq, I) == [k \in 1..Cardinality(I) |-> seq[Kth(I, k)]]

\* C7: dedupe_candidates(input) = (unique, duplicates) with len(unique) +
\* len(duplicates) = len(input); unique holds exactly the first occurrence
\* of each URL, in the order of the input, and no URL twice.  The run hands
\* on this unique list (cut to count) and records these duplicates.
C7_DedupePartition ==
    rpc # "fetch" =>
        LET deduped == dedupe_candidates(candidates)
        IN  /\ Len(deduped.unique) + Len(deduped.duplicate_results) = Len(candidates)
            /\ deduped.unique = Pick(candidates, FirstIdx(candidates))
            /\ \A i, j \in 1..Len(deduped.unique) :
                  deduped.unique[i].url = deduped.unique[j].url => i = j
            /\ unique_candidates = Truncate(deduped.unique, count)
            /\ SubSeq(results, 1, Len(deduped.duplicate_results))
                  = deduped.duplicate_results

\* C7 witness: three candidates, the third repeats the URL of the first
C7_Witness ==
    /\ rpc = "done"
    /\ candidates = <<C_A1, C_A2, C_W1>>
    /\ unique_candidates = <<C_A1, C_A2>>
    /\ Len(results) = 3

\* C8: the URL alone is the key: every occurrence of a URL after its first
\* gives, in the order met, one result with status skipped_duplicate, no
\* path, the error 'Duplicate URL in candidate list' and the url and provider
\* of that occurrence; such a candidate is never downloaded (no worker and no
\* request for it: each URL has at most one worker, that of its first
\* occurrence).
C8_DuplicateResults ==
    rpc # "fetch" =>
        LET later == Pick(candidates, LaterIdx(candidates))
            dups == SubSeq(results, 1, Cardinality(LaterIdx(candidates)))
        IN  /\ Len(results) >= Len(later)
            /\ \A k \in 1..Len(later) :
                  dups[k] = [url |-> later[k].url, path |-> None,
                             provider |-> later[k].provider,
                             status |-> "skipped_duplicate",
                             error |-> Some(DuplicateError)]
            /\ \A w \in Workers :
                  /\ \E i \in FirstIdx(candidates) : candidates[i] = unique_candidates[w]
                  /\ \A v \in Workers :
                        unique_candidates[v].url = unique_candidates[w].url => v = w

\* C8 witness: the same URL came from two providers; the second occurrence
\* is a skipped_duplicate of its own provider and the first was downloaded
C8_Witness ==
    /\ rpc = "done"
    /\ candidates = <<C_A1, C_W1>>
    /\ results[1].status = "skipped_duplicate"
    /\ results[1].provider = "waifu_pics"
    /\ results[2].status = "ok"
    /\ results[2].provider = "nekosapi"

\* C9: dedup is idempotent: with dedupe_candidates(L) = (U, D),
\* dedupe_candidates(U) = (U, []).
C9_DedupeIdempotent ==
    rpc # "fetch" =>
        LET U == dedupe_candidates(candidates).unique
        IN  dedupe_candidates(U) = [unique |-> U, duplicate_results |-> <<>>]

\* C9 witness: a list with a duplicate whose unique list keeps two candidates
C9_Witness ==
    /\ rpc # "fetch"
    /\ candidates = <<C_A2, C_W2, C_W1>>
    /\ Len(dedupe_candidates(candidates).unique) = 2

\* every result of the two result lists of the run
AllResults ==
    {results[i] : i \in 1..Len(results)} \cup {dl_results[i] : i \in 1..Len(dl_results)}

\* C10 as claimed: every result the run holds has status ok iff its path is
\* not null, and status failed iff its error is not null.
C10_Original ==
    \A r \in AllResults :
        /\ r.status = "ok" <=> r.path # None
        /\ r.status = "failed" <=> r.error # None

\* C10 as amended: every result the run holds has status ok iff its path is
\* not null, and status failed or skipped_duplicate iff its error is not
\* null (a duplicate carries the error 'Duplicate URL in candidate list').
C10_ResultShape ==
    \A r \in AllResults :
        /\ r.status \in {"ok", "failed", "skipped_duplicate"}
        /\ r.status = "ok" <=> r.path # None
        /\ r.status \in {"failed", "skipped_duplicate"} <=> r.error # None

\* C10 witness: the run has ended with a result of each status
C10_Witness ==
    /\ rpc = "done"
    /\ \A st \in {"ok", "failed", "skipped_duplicate"} :
          \E i \in 1..Len(results) : results[i].status = st

-----------------------------------------------------------------------------

\* C11: in the result list of download_candidates, at every moment and so
\* when it is returned, each failed result has an error and no path, and
\* each ok result has no error and a path at which a file exists on disk.
C11_DownloadResultFields ==
    \A i \in 1..Len(dl_results) :
        LET r == dl_results[i]
        IN  /\ r.status \in {"ok", "failed"}
            /\ r.status = "failed" => r.error # None /\ r.path = None
            /\ r.status = "ok" =>
                  /\ r.error = None
                  /\ r.path # None
                  /\ r.path[1] \in DOMAIN files

\* C11 witness: download_candidates has returned a list with an ok result,
\* whose file is on disk, and a failed result
C11_Witness ==
    /\ rpc = "done"
    /\ \E i, j \in 1..Len(dl_results) :
          /\ dl_results[i].status = "ok"
          /\ dl_results[i].path[1] \in DOMAIN files
          /\ dl_results[j].status = "failed"
          /\ dl_results[j].error # None

-----------------------------------------------------------------------------

\* the candidates the providers have returned in this run, in the order in
\* which they were received, before any truncation
Returned == collected

\* the first occurrences of the URLs in what the providers returned
UniqueReturned == Pick(Returned, FirstIdx(Returned))

\* C12: in a finished run, explicit or auto, in which the providers returned
\* more than count unique candidates, exactly count candidates were
\* downloaded, namely the first count unique ones in the order of the
\* candidate list, and the result list holds count results plus one for each
\* duplicate found.
C12_TruncationToCount ==
    (rpc = "done" /\ Len(UniqueReturned) > count) =>
        /\ Len(dl_results) = count
        /\ unique_candidates = SubSeq(UniqueReturned, 1, count)
        /\ Len(results) = count + CountStatus(results, "skipped_duplicate")

\* C12 in explicit mode only, where it holds: the whole list the provider
\* returned is deduplicated before it is cut to count
C12_ExplicitMode ==
    provider_name # "auto" => C12_TruncationToCount

\* a finished explicit run in which the provider returned three unique
\* candidates and a duplicate, for a count of two
C12_ExplicitWitness ==
    /\ rpc = "done"
    /\ provider_name = "nekosapi"
    /\ count = 2
    /\ Returned = <<C_A1, C_A1, C_A2, C_A3>>
    /\ Len(dl_results) = 2

-----------------------------------------------------------------------------

\* the number of candidates the first k calls, to the first k providers of
\* order, have returned
RECURSIVE ReturnedBy(_, _)
ReturnedBy(order, k) ==
    IF k = 0 THEN 0 ELSE ReturnedBy(order, k - 1) + Len(answers[k].returned)

\* the number of fetch_candidates calls that have returned
Answered == Len(answers)

\* C13: in auto mode the providers are queried one at a time and in the
\* auto order: the i-th call goes to the i-th provider of the order, all
\* earlier calls have returned when it is made, it is made only for a deficit
\* (count less the candidates the earlier providers returned) above zero and
\* asks for exactly that deficit, and no provider after the one that closes
\* the deficit is called.
C13_AutoSequential ==
    provider_name = "auto" =>
        LET order == get_auto_provider_order(rating, theme)
        IN  /\ Len(queries) <= Len(order)
            /\ Len(awaiting) <= 1
            /\ awaiting # None => awaiting[1] = queries[Len(queries)]
            /\ Len(collected) = ReturnedBy(order, Answered)
            /\ \A i \in 1..Len(queries) :
                  /\ queries[i].provider = order[i]
                  /\ queries[i].count = count - ReturnedBy(order, i - 1)
                  /\ queries[i].count > 0
            /\ \A i \in 1..Answered :
                  ReturnedBy(order, i) >= count => Len(queries) <= i

\* C13 witness: an auto run has ended in which the second provider was
\* asked for a smaller number than the first and closed the deficit, and
\* the third provider of the order was not called
C13_Witness ==
    /\ rpc = "done"
    /\ provider_name = "auto"
    /\ Len(get_auto_provider_order(rating, theme)) > 2
    /\ Len(queries) = 2
    /\ queries[1].count = count
    /\ queries[2].count = count - Len(answers[1].returned)
    /\ queries[2].count < count

-----------------------------------------------------------------------------

\* an auto run for two images has ended, the first provider of the order
\* returned one candidate, and every download succeeded
FallbackRun(order) ==
    /\ rpc = "done"
    /\ provider_name = "auto"
    /\ count = 2
    /\ Len(order) >= 2
    /\ Len(answers) >= 1
    /\ Len(answers[1].returned) = 1
    /\ \A i \in 1..Len(dl_results) : dl_results[i].status = "ok"

\* two ok results, one from each of the first two providers of the order,
\* counted as such by summary(), and no warning
FilledFromBoth(order) ==
    /\ CountStatus(results, "ok") = 2
    /\ \A k \in 1..2 : \E i \in 1..Len(results) :
          results[i].status = "ok" /\ results[i].provider = order[k]
    /\ summary(results).downloaded = 2
    /\ summary(results).failed = 0
    /\ warnings = <<>>

\* C14: in auto mode with count = 2, when the first provider of the order
\* yields one candidate, the second yields at least one candidate with a
\* different URL and every download succeeds, the run ends with exactly two
\* ok results, one from each of the two providers, downloaded = 2,
\* failed = 0 and no warning.
C14_AutoFallback ==
    LET order == get_auto_provider_order(rating, theme)
    IN  (/\ FallbackRun(order)
         /\ Len(answers) >= 2
         /\ \E k \in 1..Len(answers[2].returned) :
               answers[2].returned[k].url # answers[1].returned[1].url)
          => FilledFromBoth(order)

\* C14 where the code meets it: the candidate the second provider returns
\* first is the one with a different URL
C14_SecondLeadsWithNew ==
    LET order == get_auto_provider_order(rating, theme)
    IN  (/\ FallbackRun(order)
         /\ Len(answers) >= 2
         /\ answers[2].returned # <<>>
         /\ answers[2].returned[1].url # answers[1].returned[1].url)
          => FilledFromBoth(order)

\* an auto run for kitsune filled from nekos_best and nekos_life
C14_KitsuneWitness ==
    /\ FallbackRun(get_auto_provider_order(rating, theme))
    /\ theme = "kitsune"
    /\ FilledFromBoth(<<"nekos_best", "nekos_life">>)

-----------------------------------------------------------------------------

\* C15: when the acquisition of an auto run has ended before the end of the
\* provider order, the candidates collected hold at least count different
\* URLs (a URL returned twice counts once).
C15_StopsOnlyWhenSatisfied ==
    (/\ provider_name = "auto"
     /\ rpc \in {"download", "done"}
     /\ tried < Len(get_auto_provider_order(rating, theme)))
      => Len(UniqueReturned) >= count

\* C15 with the count the code keeps: the acquisition ends early only when
\* at least count candidates are collected, duplicates included
C15_StopsOnCollected ==
    (/\ provider_name = "auto"
     /\ rpc \in {"download", "done"}
     /\ tried < Len(get_auto_provider_order(rating, theme)))
      => Len(Returned) >= count

-----------------------------------------------------------------------------

\* the positions of the theme's priority list whose provider declares both
\* the theme and the rating
Declared(rating_, theme_) ==
    {i \in 1..Len(PriorityOrder(theme_)) :
        /\ theme_ \in Range(_PROVIDERS[PriorityOrder(theme_)[i]].supported_themes)
        /\ rating_ \in Range(_PROVIDERS[PriorityOrder(theme_)[i]].supported_ratings)}

\* C16: for the rating and theme of every run, get_auto_provider_order
\* returns the theme's priority list cut down to exactly the providers that
\* declare the theme and the rating, in the order of the priority list, and
\* no provider twice.
C16_OrderIsFilteredPriority ==
    LET order == get_auto_provider_order(rating, theme)
    IN  /\ order = Pick(PriorityOrder(theme), Declared(rating, theme))
        /\ \A i, j \in 1..Len(order) : order[i] = order[j] => i = j
        /\ Range(order) \subseteq ProviderNames

\* C16 witness: an auto run for explicit catgirl images has queried the two
\* providers left of the five of the catgirl list
C16_Witness ==
    /\ rpc = "done"
    /\ provider_name = "auto"
    /\ theme = "catgirl"
    /\ rating = "explicit"
    /\ get_auto_provider_order(rating, theme) = <<"nekosapi", "waifu_pics">>
    /\ Len(queries) = 2
    /\ queries[2].provider = "waifu_pics"

CatgirlOrder == <<"nekosapi", "waifu_pics", "nekos_life", "nekobot", "nekos_best">>
NekoOrder == <<"waifu_pics", "nekos_best", "nekos_life", "nekobot", "nekosapi">>
FemboyOrder == <<"waifu_pics", "e621", "rule34">>
KitsuneOrder == <<"nekos_best", "nekos_life", "nekosapi", "waifu_pics", "nekobot">>

\* the four lists as stated, pairwise distinct, and the two auto orders that
\* follow from them
StatedLists ==
    /\ PriorityOrder("catgirl") = CatgirlOrder
    /\ PriorityOrder("neko") = NekoOrder
    /\ PriorityOrder("femboy") = FemboyOrder
    /\ PriorityOrder("kitsune") = KitsuneOrder
    /\ \A s, t \in VALID_THEMES : PriorityOrder(s) = PriorityOrder(t) => s = t
    /\ get_auto_provider_order("safe", "kitsune") = <<"nekos_best", "nekos_life">>
    /\ SubSeq(get_auto_provider_order("safe", "catgirl"), 1, 2)
          = <<"nekosapi", "waifu_pics">>

\* C17 as claimed: the four themes have the stated lists, pairwise distinct,
\* and a theme value that is none of the four uses a default list separate
\* from them.
C17_Original ==
    /\ StatedLists
    /\ theme \notin VALID_THEMES =>
          \A t \in VALID_THEMES : PriorityOrder(theme) # PriorityOrder(t)

\* C17 as amended: catgirl, neko and femboy have lists of their own;
\* kitsune has none and uses, as every other theme value does, the default
\* list, which is the list stated for kitsune; the four lists are pairwise
\* distinct and the two auto orders follow.
C17_PriorityLists ==
    /\ StatedLists
    /\ theme \notin {"catgirl", "neko", "femboy"} =>
          PriorityOrder(theme) = KitsuneOrder

\* C17 witness: an auto run for safe kitsune images has queried nekos_best
\* and then nekos_life, and no other provider
C17_Witness ==
    /\ rpc = "done"
    /\ provider_name = "auto"
    /\ theme = "kitsune"
    /\ rating = "safe"
    /\ count = MaxCands
    /\ Len(queries) = 2
    /\ queries[1].provider = "nekos_best"
    /\ queries[2].provider = "nekos_life"

-----------------------------------------------------------------------------

\* the run names a provider that does not declare the requested theme, or
\* does not declare the requested rating
ExplicitUnsupported ==
    /\ entry = "api"
    /\ provider_name # "auto"
    /\ \/ theme \notin Range(get_provider(provider_name).supported_themes)
       \/ rating \notin Range(get_provider(provider_name).supported_ratings)

\* the one warning of such a run: it names the provider and the theme, or
\* the rating when the theme is supported, as the value not supported
NamesUnsupported(warning) ==
    /\ warning.provider = provider_name
    /\ warning.text[1] = " does not support "
    /\ IF theme \notin Range(get_provider(provider_name).supported_themes)
       THEN /\ warning.text[2] = "theme"
            /\ warning.text[4] = theme
            /\ warning.supported = get_provider(provider_name).supported_themes
       ELSE /\ warning.text[2] = "rating"
            /\ warning.text[4] = rating
            /\ warning.supported = get_provider(provider_name).supported_ratings

\* C18: a run with an explicitly named provider that does not declare the
\* requested theme or rating never calls the provider and never downloads;
\* once the provider has been tried there is exactly one warning, which
\* names the unsupported theme or rating; the run goes on without raising
\* and ends with an empty result list and exit_code() = 1.
C18_UnsupportedExplicit ==
    ExplicitUnsupported =>
        /\ queries = <<>>
        /\ awaiting = None
        /\ unique_candidates = <<>>
        /\ files = <<>>
        /\ rpc \in {"fetch", "done"}
        /\ tried = 0 => warnings = <<>>
        /\ tried = 1 => Len(warnings) = 1 /\ NamesUnsupported(warnings[1])
        /\ rpc = "fetch" => ENABLED (FetchExplicit \/ RunStart)
        /\ rpc = "done" => results = <<>> /\ exit_code(results) = 1

\* C18 witness: the run of waifu_pics for the rating suggestive has ended
\* with the warning about the rating
C18_Witness ==
    /\ rpc = "done"
    /\ provider_name = "waifu_pics"
    /\ theme = "catgirl"
    /\ rating = "suggestive"
    /\ Len(warnings) = 1
    /\ warnings[1].text[2] = "rating"
    /\ results = <<>>
    /\ exit_code(results) = 1

-----------------------------------------------------------------------------

\* exit_code() is 0 if summary().downloaded equals the requested count and
\* 1 in every other case
ExitCodeOfRunner ==
    /\ exit_code(results) \in {0, 1}
    /\ exit_code(results) = 0 <=> summary(results).downloaded = count
    /\ CountStatus(results, "ok") < count => exit_code(results) = 1

\* C19: exit_code() is 0 iff summary().downloaded equals the requested
\* count and 1 otherwise, and when the download command has ended the
\* process, it has done so after the run and with the exit_code() of the run.
C19_ExitCode ==
    /\ ExitCodeOfRunner
    /\ (entry = "cli" /\ exit_status # None) =>
          /\ rpc = "done"
          /\ exit_status = Some(exit_code(results))

\* the part of C19 that holds: exit_code() of the runner, in every state
C19_RunnerOnly == ExitCodeOfRunner

\* a run has ended with fewer downloads than requested and no failure: the
\* providers had too few images, and exit_code() is 1
C19_DeficitWitness ==
    /\ rpc = "done"
    /\ summary(results).failed = 0
    /\ summary(results).downloaded < count
    /\ summary(results).downloaded > 0
    /\ exit_code(results) = 1

-----------------------------------------------------------------------------

IsOk(r) == r.status = "ok"
IsFailed(r) == r.status = "failed"
IsDuplicate(r) == r.status = "skipped_duplicate"

\* C20: whenever summary() is called, downloaded, failed and duplicates are
\* the numbers of ok, failed and skipped_duplicate results in the runner's
\* result list, their sum is the length of that list, and requested is the
\* count setting.
C20_SummaryCounts ==
    LET s == summary(results)
    IN  /\ s.downloaded = Len(SelectSeq(results, IsOk))
        /\ s.failed = Len(SelectSeq(results, IsFailed))
        /\ s.duplicates = Len(SelectSeq(results, IsDuplicate))
        /\ s.downloaded + s.failed + s.duplicates = Len(results)
        /\ s.requested = count

\* C20 witness: a run for three images has ended with one image downloaded,
\* one failed and one duplicate
C20_Witness ==
    /\ rpc = "done"
    /\ summary(results) =
          [requested |-> 3, downloaded |-> 1, failed |-> 1, duplicates |-> 1]

-----------------------------------------------------------------------------

\* the last GET of worker w
LastReply(w) == replies[w][Len(replies[w])]

\* the attempt with this outcome raises: in the GET, the status check, the
\* content-type check, the creation of the directory or the file write
Fails(outcome) ==
    \/ outcome.net # "response"
    \/ ~IsSuccess(outcome.status)
    \/ HeaderContentType(outcome) \in NonImageTypes
    \/ outcome.fs \in {"mkdir", "write", "close", "replace"}

\* C21: run never raises because of a candidate's failure: no exception of
\* an attempt leaves _download_one (run raises only out of the constructor
\* call of the command or out of a provider's fetch_candidates, before any
\* download); a candidate whose last attempt raised
\* (GET, status check, content-type check, directory creation, file write)
\* has a failed result with the error text, every other candidate has an ok
\* result, and the finished run has one result for each candidate it tried
\* to download, from which the summary counts the downloaded and the failed
\* ones.
C21_NoEscape ==
    /\ rpc = "raised" => (entry = "cli" \/ Len(queries) > Len(answers))
    /\ \A w \in Workers :
          /\ wpc[w] # "raised"
          /\ wpc[w] = "done" =>
                IF Fails(LastReply(w))
                THEN /\ ResultOf(w).status = "failed"
                     /\ ResultOf(w).path = None
                     /\ ResultOf(w).error # None
                ELSE ResultOf(w).status = "ok"
    /\ rpc = "done" =>
          /\ \A w \in Workers : wpc[w] = "done" /\ replies[w] # <<>>
          /\ Len(dl_results) = Len(unique_candidates)
          /\ Len(results) = summary(results).duplicates + Len(dl_results)
          /\ summary(results).failed =
                Cardinality({w \in Workers : Fails(LastReply(w))})
          /\ summary(results).downloaded =
                Cardinality({w \in Workers : ~Fails(LastReply(w))})

\* C21 witness: a finished run in which one candidate failed with an error
\* of the file write and a candidate that finished after it was downloaded.
C21_Witness ==
    /\ rpc = "done"
    /\ \E w1, w2 \in Workers :
          /\ LastReply(w1).fs = "write"
          /\ ResultOf(w1).status = "failed"
          /\ ResultOf(w2).status = "ok"
          /\ \E i \in ResultIdx(w1), j \in ResultIdx(w2) : i < j

-----------------------------------------------------------------------------

\* the results of the wanted status that download_candidates has collected
Collected(status) == {i \in 1..Len(dl_results) : dl_results[i].status = status}

\* some worker can take a slot, issue a GET or wake up for another attempt
DownloadCanStart ==
    ENABLED (\E w \in Workers : Acquire(w) \/ Attempt(w) \/ Wake(w))

\* C22: once the run is interrupted while downloads are in progress, no
\* download is started any more, and the summary reported afterwards counts
\* every download that had finished (as downloaded or failed) and every
\* duplicate that had been found.
C22_InterruptSummary ==
    (rpc = "interrupted" /\ unique_candidates # <<>>) =>
        /\ ~DownloadCanStart
        /\ summary(results).downloaded = Cardinality(Collected("ok"))
        /\ summary(results).failed = Cardinality(Collected("failed"))
        /\ summary(results).duplicates =
              Len(dedupe_candidates(candidates).duplicate_results)

\* what holds instead: after an interrupt no download is started and the
\* summary counts the duplicates, but none of the finished downloads
C22_DuplicatesOnly ==
    (rpc = "interrupted" /\ unique_candidates # <<>>) =>
        /\ ~DownloadCanStart
        /\ summary(results).downloaded = 0
        /\ summary(results).failed = 0
        /\ summary(results).duplicates =
              Len(dedupe_candidates(candidates).duplicate_results)

\* C22 witness: the run was interrupted after one image had been written and
\* another download had failed, with a third one in flight; a duplicate had
\* been found
C22_Witness ==
    /\ rpc = "interrupted"
    /\ Collected("ok") # {}
    /\ Collected("failed") # {}
    /\ \E w \in Workers : wpc[w] = "cancelled" /\ replies[w] # <<>>
    /\ summary(results).duplicates = 1

-----------------------------------------------------------------------------

\* the destination build_filename and _download_one give worker w's
\* candidate for a response with this outcome, at some second of the clock
IsDestination(p, w, outcome) ==
    LET image == unique_candidates[w]
    IN  /\ p.dir = image.category
        /\ p.name.provider = image.provider
        /\ p.name.digest = UrlDigest(image.url)
        /\ p.name.timestamp \in 0..MaxClock
        /\ p.name.extension =
              extension_from_content_type(HeaderContentType(outcome), image.url)

\* C23: in every state, after a failed write or an interrupt too, each file
\* at a destination path holds the complete body of the response of one
\* successful attempt for the candidate the path belongs to; what a failed
\* or interrupted write leaves is a temp file in the directory of its
\* destination, and the destination itself does not exist then.
C23_DestinationsComplete ==
    /\ \A p \in DOMAIN files :
          \E w \in Workers : \E i \in 1..Len(replies[w]) :
              /\ ~Fails(replies[w][i])
              /\ i = Len(replies[w])
              /\ IsDestination(p, w, replies[w][i])
              /\ files[p] = replies[w][i].body
    /\ \A t \in temps :
          /\ t.dir \in dirs
          /\ \E w \in Workers :
                /\ t.dir = unique_candidates[w].category
                /\ t.stem.digest = UrlDigest(unique_candidates[w].url)
                /\ FilesOf(w) = {}

\* C23 witness: the run was interrupted; one image is at its destination, a
\* failed write of another candidate has left a temp file, and so has a
\* write the interrupt stopped.
C23_Witness ==
    /\ rpc = "interrupted"
    /\ DOMAIN files # {}
    /\ \E v, w \in Workers :
          /\ wpc[v] = "done" /\ LastReply(v).fs = "write" /\ TempsOf(v) # {}
          /\ wpc[w] = "cancelled" /\ TempsOf(w) # {}

-----------------------------------------------------------------------------

\* the steps of atomic_write_bytes that can fail
WriteSteps == {"write", "close", "replace"}

\* the attempt with this outcome got as far as atomic_write_bytes, which
\* failed
WriteFailed(outcome) ==
    /\ outcome.net = "response"
    /\ IsSuccess(outcome.status)
    /\ IsImageContentType(HeaderContentType(outcome))
    /\ outcome.fs \in WriteSteps

\* C24: when a step of atomic_write_bytes has failed (the write to the temp
\* file, its close, or the rename), no temp file is left for the candidate,
\* its destination does not exist, and the error has been classified by
\* _download_one: not retryable, so the candidate is failed at once.
C24_TempRemoved ==
    \A w \in Workers :
        (wpc[w] = "done" /\ WriteFailed(LastReply(w)))
            => /\ TempsOf(w) = {}
               /\ FilesOf(w) = {}
               /\ EndedFailed(w)
               /\ ResultOf(w).error # None

\* what holds instead: the temp file is removed when the close or the rename
\* failed, and it is left behind when the write itself failed
C24_TempLeftByWrite ==
    \A w \in Workers :
        (wpc[w] = "done" /\ WriteFailed(LastReply(w)))
            => /\ TempsOf(w) = {} <=> LastReply(w).fs # "write"
               /\ FilesOf(w) = {}
               /\ EndedFailed(w)
               /\ ResultOf(w).error # None

\* C24 witness: a candidate has failed in the write to its temp file, and
\* the temp file is still in the category directory
C24_Witness ==
    \E w \in Workers :
        /\ wpc[w] = "done"
        /\ LastReply(w) = O_WRITE_FAILS
        /\ \E t \in TempsOf(w) : t.dir \in dirs
        /\ ResultOf(w).status = "failed"

-----------------------------------------------------------------------------

\* the providers that get one image from each upstream request
OnePerCall == {"waifu_pics", "nekos_life", "nekobot"}

\* a fetch_candidates call has raised, and run with it
FetchRaised == rpc = "raised" /\ Len(queries) > Len(answers)

\* the requests of a call for n images to a one-image-per-call provider
\* that got an image
Served(provider_name_, n) ==
    {j \in 1..n : j <= Len(upstream[provider_name_])
                   /\ WireAt(provider_name_, j) = "ok"}

\* C25: no fetch_candidates call raises, whatever the upstream replies
\* (timeout, status that is not 2xx, body that is not JSON, JSON that is not
\* an object, field that is not a list): a call returns a list; a reply of
\* these kinds contributes no candidate, and the other requests of the
\* same call still contribute theirs.
C25_ProvidersNeverRaise ==
    /\ ~FetchRaised
    /\ \A i \in 1..Len(answers) :
          LET p == queries[i].provider
          IN  IF p \in OnePerCall
              THEN answers[i].requests > 0 =>
                       answers[i].returned =
                           Pick(upstream[p], Served(p, queries[i].count))
              ELSE WireAt(p, 1) # "ok" => answers[i].returned = <<>>

\* the replies for which the call of the awaited provider raises: a JSON
\* value that is not an object, for a one-image-per-call provider
\* (AttributeError), and a field that is not a list, for nekosapi,
\* nekos_best and e621 (ValueError of the parse function)
RaisingReply(q) ==
    IF q.provider \in OnePerCall
    THEN \E j \in 1..q.count : WireAt(q.provider, j) = "not_object"
    ELSE q.provider # "rule34" /\ WireAt(q.provider, 1) = "bad_field"

\* what holds instead: a call raises exactly for those replies, and a call
\* that returns gives what the claim says
C25_RaisesOnShape ==
    /\ FetchRaised => RaisingReply(queries[Len(queries)])
    /\ \A i \in 1..Len(answers) :
          LET p == queries[i].provider
          IN  /\ ~RaisingReply(queries[i])
              /\ IF p \in OnePerCall
                 THEN answers[i].requests > 0 =>
                          answers[i].returned =
                              Pick(upstream[p], Served(p, queries[i].count))
                 ELSE WireAt(p, 1) # "ok" => answers[i].returned = <<>>

\* C25 witness: an explicit run with waifu_pics for two images has raised
\* out of fetch_candidates, because the reply to the second request was a
\* JSON value that is not an object
C25_Witness ==
    /\ FetchRaised
    /\ provider_name = "waifu_pics"
    /\ count = 2
    /\ wire["waifu_pics"] = <<"ok", "not_object">>
    /\ results = <<>>

-----------------------------------------------------------------------------

\* every candidate of the list is one of the images the API of the provider
\* sends, and the list is no longer than what the API sends
FromUpstream(list, provider_name_) ==
    /\ Len(list) <= Len(upstream[provider_name_])
    /\ \A k \in 1..Len(list) : list[k] \in Range(upstream[provider_name_])

-----------------------------------------------------------------------------

\* C27: when download_candidates is given an empty list, it returns an empty
\* list at once and nothing else has changed: no semaphore (nor client, nor
\* worker) exists, no GET was issued, no directory, temp file or file was
\* created, and the run's results hold no download result.
C27_EmptyListNoWork ==
    (rpc \in {"download", "done"} /\ unique_candidates = <<>>) =>
        /\ rpc = "done"
        /\ dl_results = <<>>
        /\ sem = 0
        /\ wpc = <<>>
        /\ replies = <<>>
        /\ dirs = {} /\ temps = {} /\ DOMAIN files = {}
        /\ results = <<>>

\* C27 witness: a run has ended whose provider was called and returned no
\* candidate, because its upstream request failed
C27_Witness ==
    /\ rpc = "done"
    /\ unique_candidates = <<>>
    /\ Len(answers) = 1
    /\ answers[1].requests = 1
    /\ WireAt(queries[1].provider, 1) = "timeout"
    /\ dl_results = <<>>

-----------------------------------------------------------------------------

\* the candidates that have begun and whose result is not yet recorded
Begun == {w \in Workers : wpc[w] \in {"get", "sleep"}}

\* the candidates that sleep between two attempts
Asleep == {w \in Workers : wpc[w] = "sleep"}

\* C28: a candidate keeps its pool slot from its first attempt until its
\* result is recorded, backoff sleeps included: every candidate that sleeps
\* counts against the pool, so the free slots are the concurrency less the
\* candidates begun; while the pool is full no waiting candidate can start;
\* and with concurrency = 1 at most one candidate has begun, the others
\* either have their result or have made no attempt at all.
C28_SlotHeldThroughSleep ==
    rpc = "download" =>
        /\ sem = concurrency - Cardinality(Begun)
        /\ Asleep # {} => sem < concurrency
        /\ Cardinality(Begun) = concurrency =>
              \A v \in Workers : ~ENABLED Acquire(v)
        /\ concurrency = 1 =>
              \A w \in Begun : \A v \in Workers \ {w} :
                 \/ wpc[v] = "done" /\ ResultIdx(v) # {}
                 \/ wpc[v] = "start" /\ replies[v] = <<>> /\ delays[v] = <<>>

\* C28 witness: with concurrency = 1 one candidate has its result, the next
\* sleeps after a failed attempt, and a third waits without an attempt.
C28_Witness ==
    /\ rpc = "download"
    /\ concurrency = 1
    /\ sem = 0
    /\ \E u, w, v \in Workers :
          /\ wpc[u] = "done"
          /\ wpc[w] = "sleep" /\ Len(replies[w]) >= 1
          /\ wpc[v] = "start" /\ replies[v] = <<>>

-----------------------------------------------------------------------------

\* the sleep the contract gives after failed attempt number n (0-based), in
\* milliseconds
ContractDelay(n) == IF n = 0 THEN 500 ELSE IF n = 1 THEN 1000 ELSE 2000

\* C29: the sleep after failed attempt n is 0.5 s for n = 0, 1.0 s for
\* n = 1 and 2.0 s for every n >= 2; a sleep lies between two attempts, never
\* before the first and never after the last, so a candidate with retries = r
\* sleeps at most r times.
C29_BackoffSchedule ==
    \A w \in Workers :
        /\ \A i \in 1..Len(delays[w]) : delays[w][i] = ContractDelay(i - 1)
        /\ Len(delays[w]) <= retries
        /\ Len(delays[w]) <= Len(replies[w])
        /\ wpc[w] = "sleep" => Len(delays[w]) = Len(replies[w])
        /\ wpc[w] \in {"get", "start"} => Len(delays[w]) = Len(replies[w])
        /\ wpc[w] = "done" => Len(delays[w]) = Len(replies[w]) - 1
        /\ replies[w] = <<>> => delays[w] = <<>>

\* C29 witness: with retries = 5 a candidate has failed after six attempts
\* and five sleeps, the last three of them 2.0 s long.
C29_Witness ==
    \E w \in Workers :
        /\ retries = 5
        /\ wpc[w] = "done"
        /\ Len(replies[w]) = 6
        /\ delays[w] = <<500, 1000, 2000, 2000, 2000>>

-----------------------------------------------------------------------------

\* download_candidates is at work and the user does not interrupt it
Running == rpc = "download" /\ interrupts = 0

\* candidate w has acquired a pool slot
HasSlot(w) == w \in Workers /\ wpc[w] \in {"get", "sleep", "done"}

\* candidate w has its result
HasResult(w) == w \in Workers /\ wpc[w] = "done" /\ ResultIdx(w) # {}

\* C30: when every request is answered or raises, every candidate passed to
\* download_candidates eventually acquires a pool slot and eventually has a
\* result, and download_candidates eventually returns with one result per
\* candidate, for any concurrency, retries and number of candidates; a
\* worker that holds a slot can always take its next step, whatever the
\* other workers sleep on or wait for.
C30_EveryCandidateEnds ==
    /\ [](rpc = "download" =>
            \A w \in Workers :
               /\ wpc[w] = "get" => server[unique_candidates[w].url] # {}
               /\ wpc[w] = "sleep" => ENABLED Wake(w)
               /\ (wpc[w] = "start" /\ sem > 0) => ENABLED Acquire(w))
    /\ Running ~> (\A w \in Workers : HasSlot(w))
    /\ Running ~> (/\ rpc = "done"
                   /\ \A w \in Workers : HasResult(w)
                   /\ Len(dl_results) = Len(unique_candidates))

\* C30 witness: download_candidates has returned after three candidates
\* shared two slots, one of them retried after a sleep, each with a result.
C30_Witness ==
    /\ rpc = "done"
    /\ concurrency = 2
    /\ Len(unique_candidates) = 3
    /\ \A w \in Workers : HasResult(w)
    /\ \E w \in Workers : Len(delays[w]) = 1 /\ Len(replies[w]) = 2

-----------------------------------------------------------------------------

\* the providers whose fetch_candidates has a randomize parameter that the
\* spec names
AcceptsRandomize == {"waifu_pics", "e621", "rule34"}

\* C32: a run of the download command with randomize set constructs its
\* runner, and fetch_candidates of every queried provider that accepts the
\* hint is called with randomize=true; without the setting it is called
\* without it.
C32_RandomizeReachesProviders ==
    entry = "cli" =>
        /\ rpc = "raised" => queries # <<>>
        /\ \A i \in 1..Len(queries) :
              queries[i].provider \in AcceptsRandomize =>
                  queries[i].randomize = randomize

\* C32 witness: the download command with --randomize has ended with the
\* TypeError of the constructor, before any provider was called
C32_Witness ==
    /\ entry = "cli"
    /\ randomize
    /\ rpc = "raised"
    /\ queries = <<>>
    /\ exit_status = Some(1)

\* C32, the runner alone: DownloadRunner has no randomize, and every call
\* of fetch_candidates it makes is one without the hint
C32_RunnerNeverPasses ==
    entry = "api" => \A i \in 1..Len(queries) : ~queries[i].randomize

-----------------------------------------------------------------------------

\* provider p cannot serve the theme and rating of the run
CannotServe(p) ==
    \/ ~Supports(get_provider(p), rating, theme)
    \/ RejectsInside(p)

\* C33: a provider that contributes no candidate to a run because it cannot
\* serve the theme and rating has a warning in the run: the explicitly
\* chosen provider once _fetch_single_provider is through with it, and any
\* provider whose fetch_candidates was called and has returned.
C33_MismatchWarns ==
    entry # "call" =>
        /\ (provider_name # "auto" /\ rpc = "done" /\ CannotServe(provider_name)) =>
              \E i \in 1..Len(warnings) : warnings[i].provider = provider_name
        /\ \A i \in 1..Len(answers) :
              CannotServe(queries[i].provider) =>
                  \E j \in 1..Len(warnings) : warnings[j].provider = queries[i].provider

\* C33 witness: the run of waifu_pics for femboy and safe has ended: the
\* provider was called, sent no request, returned [], and no warning exists
C33_Witness ==
    /\ provider_name = "waifu_pics"
    /\ theme = "femboy"
    /\ rating = "safe"
    /\ rpc = "done"
    /\ Len(answers) = 1
    /\ answers[1].returned = <<>>
    /\ answers[1].requests = 0
    /\ warnings = <<>>
    /\ results = <<>>

\* C33, the declared tables: an explicitly chosen provider that does not
\* declare the theme or the rating is warned about
C33_DeclaredMismatchWarns ==
    (entry # "call" /\ provider_name # "auto" /\ rpc = "done"
       /\ ~Supports(get_provider(provider_name), rating, theme)) =>
        Len(warnings) = 1 /\ NamesUnsupported(warnings[1])

-----------------------------------------------------------------------------

\* the run selects rule34: explicitly, or in auto mode for femboy
SelectsRule34 ==
    /\ entry = "api"
    /\ theme = "femboy"
    /\ provider_name \in {"auto", "rule34"}

\* RULE34_USER_ID or RULE34_API_KEY is absent from the environment or blank
CredentialMissing ==
    \E name \in {"RULE34_USER_ID", "RULE34_API_KEY"} :
        \/ name \notin DOMAIN environ
        \/ \A i \in 1..Len(environ[name]) : environ[name][i] = " "

\* C34: when RULE34_USER_ID or RULE34_API_KEY is absent or blank, every
\* call of fetch_candidates of rule34 returns [] without a request and
\* without raising, and a run that selects rule34 does not end in an
\* exception: it goes on until it is done, and then has its summary.
C34_NoCredentialsNoRequest ==
    CredentialMissing =>
        /\ \A i \in 1..Len(answers) :
              queries[i].provider = "rule34" =>
                  answers[i].requests = 0 /\ answers[i].returned = <<>>
        /\ (entry = "call" /\ provider_name = "rule34") => rpc # "raised"
        /\ SelectsRule34 =>
              /\ rpc # "raised"
              /\ rpc # "done" => ENABLED Next
              /\ rpc = "done" =>
                    /\ summary(results).requested = count
                    /\ summary(results).downloaded = 0
                    /\ provider_name = "rule34" => results = <<>>

\* C34 witness: RULE34_API_KEY is blank, the run in auto mode has asked
\* rule34 after waifu_pics and e621, got [] without a request, and is done
C34_Witness ==
    /\ SelectsRule34
    /\ provider_name = "auto"
    /\ "RULE34_USER_ID" \in DOMAIN environ
    /\ "RULE34_API_KEY" \in DOMAIN environ
    /\ environ["RULE34_USER_ID"] = <<" ", "4", "2">>
    /\ environ["RULE34_API_KEY"] = <<" ", " ">>
    /\ rpc = "done"
    /\ Len(answers) = 3
    /\ queries[3].provider = "rule34"
    /\ answers[3].requests = 0
    /\ answers[3].returned = <<>>

\* C34 witness: no credential is in the environment and the run of rule34
\* is done
C34_AbsentWitness ==
    /\ SelectsRule34
    /\ provider_name = "rule34"
    /\ DOMAIN environ = {}
    /\ rpc = "done"
    /\ Len(answers) = 1
    /\ answers[1].requests = 0

-----------------------------------------------------------------------------

\* C35: every RemoteImage that fetch_candidates of any provider returns
\* carries at most 32 tags, however many tags the post has upstream.
C35_TagsCapped ==
    \A i \in 1..Len(answers) :
        \A k \in 1..Len(answers[i].tags) : Len(answers[i].tags[k]) <= TAG_CAP

\* C35 witness: nekosapi has returned an image of a post with 33 tags, and
\* the image carries all of them
C35_Witness ==
    /\ entry = "call"
    /\ rpc = "returned"
    /\ provider_name = "nekosapi"
    /\ Len(Flatten(post_tags)) = TAG_CAP + 1
    /\ answers[1].returned # <<>>
    /\ Len(answers[1].tags[1]) = TAG_CAP + 1

\* C35, e621 and rule34: their images carry the theme, the name of the
\* provider and the first 30 tags of the post at most
C35_PagedTagsCapped ==
    \A i \in 1..Len(answers) :
        queries[i].provider # "nekosapi" =>
            \A k \in 1..Len(answers[i].tags) : Len(answers[i].tags[k]) <= TAG_CAP

\* C35: e621 has returned an image of a post with three groups of 20 tags,
\* cut to 32 tags
C35_CutWitness ==
    /\ entry = "call"
    /\ rpc = "returned"
    /\ provider_name = "e621"
    /\ Len(Flatten(post_tags)) = 60
    /\ answers[1].returned # <<>>
    /\ Len(answers[1].tags[1]) = TAG_CAP

-----------------------------------------------------------------------------

\* the results of the run with status ok
OkResults == {i \in 1..Len(results) : results[i].status = "ok"}

\* path is out_dir/<category>/<provider>_<timestamp>_<url-hash><ext> for the
\* candidate with this URL
HasLayout(result) ==
    \E w \in Workers :
        /\ unique_candidates[w].url = result.url
        /\ result.path # None
        /\ result.path[1].dir = unique_candidates[w].category
        /\ result.path[1].name.provider = unique_candidates[w].provider
        /\ result.path[1].name.timestamp \in 0..MaxClock
        /\ result.path[1].name.digest = UrlDigest(result.url)
        /\ Head(result.path[1].name.extension) = "."

\* the run has ended with its summary
RunIsDone == entry = "api" /\ rpc = "done"

\* C36 as claimed: the ok results of a run have distinct paths of the form
\* out_dir/<category>/<provider>_<timestamp>_<url-hash><ext>, and after the
\* run the number of files under out_dir is summary.downloaded.
C36_Original ==
    RunIsDone =>
        /\ \A i \in OkResults : HasLayout(results[i])
        /\ \A i, j \in OkResults : i # j => results[i].path # results[j].path
        /\ Cardinality(DOMAIN files) = summary(results).downloaded

\* C36: a candidate writes a destination file in its last attempt only, so
\* there are never more files than candidates with such an attempt; the ok
\* results of a run have paths of the form
\* out_dir/<category>/<provider>_<timestamp>_<url-hash><ext>, and two of them
\* have the same path only if their URLs have the same hash and they were
\* written in the same second; after the run the files under out_dir are
\* the paths of the ok results, so their number is summary.downloaded when
\* no two downloaded URLs share a hash, and smaller otherwise.
C36_OneFilePerDigest ==
    /\ \A w \in Workers : \A i \in 1..Len(replies[w]) :
          ~Fails(replies[w][i]) => i = Len(replies[w])
    /\ Cardinality(DOMAIN files) <=
          Cardinality({w \in Workers : replies[w] # <<>> /\ ~Fails(LastReply(w))})
    /\ RunIsDone =>
          /\ \A i \in OkResults : HasLayout(results[i])
          /\ \A i, j \in OkResults :
                (i # j /\ results[i].path = results[j].path) =>
                    /\ results[i].url # results[j].url
                    /\ UrlDigest(results[i].url) = UrlDigest(results[j].url)
          /\ DOMAIN files = {results[i].path[1] : i \in OkResults}
          /\ Cardinality(DOMAIN files) <= summary(results).downloaded
          /\ (\A i, j \in OkResults :
                 i # j => UrlDigest(results[i].url) # UrlDigest(results[j].url)) =>
                Cardinality(DOMAIN files) = summary(results).downloaded

\* C36 witness: three downloads for catgirl have left three files in
\* out_dir/catgirl
C36_Witness ==
    /\ RunIsDone
    /\ theme = "catgirl"
    /\ summary(results).downloaded = 3
    /\ Cardinality(DOMAIN files) = 3
    /\ \A p \in DOMAIN files : p.dir = "catgirl"

\* C36: the two URLs with the same hash were downloaded in the same second:
\* two ok results, one file
C36_TwinsWitness ==
    /\ RunIsDone
    /\ summary(results).downloaded = 2
    /\ Cardinality(DOMAIN files) = 1
    /\ \E i, j \in OkResults :
          /\ results[i].url = Twins[1]
          /\ results[j].url = Twins[2]
          /\ results[i].path = results[j].path

-----------------------------------------------------------------------------

\* C37: whatever the providers return, at most `count` candidates are handed
\* to download_candidates, so summary.downloaded + summary.failed never
\* exceeds the requested count, nor does summary.downloaded; the same holds
\* of the results of the downloads while they are under way.
C37_AtMostRequested ==
    entry # "call" =>
        /\ Len(unique_candidates) <= count
        /\ Len(dl_results) <= Len(unique_candidates)
        /\ summary(results).requested = count
        /\ summary(results).downloaded + summary(results).failed <= count
        /\ summary(results).downloaded <= summary(results).requested
        /\ rpc # "done" =>
              summary(results \o dl_results).downloaded
                + summary(results \o dl_results).failed <= count

\* C37 witness: a provider returned more candidates than were requested,
\* and the run has ended with as many downloads and failures as requested,
\* one failure at least
C37_Witness ==
    /\ rpc = "done"
    /\ \E i \in 1..Len(answers) : Len(answers[i].returned) > count
    /\ summary(results).failed >= 1
    /\ summary(results).downloaded >= 1
    /\ summary(results).downloaded + summary(results).failed = count

-----------------------------------------------------------------------------

\* C38: in auto mode the warnings list stays empty, whatever the theme and
\* the rating: every provider that is queried declares both, so
\* _fetch_single_provider never appends a warning.
C38_AutoNeverWarns ==
    (entry # "call" /\ provider_name = "auto") =>
        /\ warnings = <<>>
        /\ \A i \in 1..Len(queries) :
              Supports(get_provider(queries[i].provider), rating, theme)

\* C38 witness: a run in auto mode is done; it skipped a provider of the
\* priority list that does not declare the rating, queried all the others,
\* and has no warning
C38_Witness ==
    /\ entry = "api"
    /\ provider_name = "auto"
    /\ rpc = "done"
    /\ \E i \in 1..Len(PriorityOrder(theme)) :
          ~Supports(get_provider(PriorityOrder(theme)[i]), rating, theme)
    /\ queries # <<>>
    /\ Len(queries) = Len(get_auto_provider_order(rating, theme))
    /\ Len(queries) < Len(PriorityOrder(theme))
    /\ warnings = <<>>

-----------------------------------------------------------------------------

\* the line is a `set` command
IsSet(parts) == parts # <<>> /\ Lower(parts[1]) = <<"s", "e", "t">>

\* raw denotes an integer between lo and hi
IntWithin(raw, lo, hi) ==
    /\ PyInt(raw).raised = None
    /\ lo <= PyInt(raw).value /\ PyInt(raw).value <= hi

\* the float is a number between lo and hi
NumberWithin(value, lo, hi) ==
    /\ value.kind = "num"
    /\ lo * value.den <= value.num /\ value.num <= hi * value.den

\* raw is one of the words for true and false
BoolWord(raw) ==
    Lower(Strip(raw)) \in {<<"1">>, <<"t", "r", "u", "e">>, <<"y", "e", "s">>, <<"y">>, <<"o", "n">>, <<"0">>, <<"f", "a", "l", "s", "e">>, <<"n", "o">>, <<"n">>, <<"o", "f", "f">>}

\* raw names one of the choices
Names(choices, raw) == \E c \in choices : Spelling[c] = Lower(Strip(raw))

\* the `set` line names a field and gives it a value that can be parsed and
\* lies within the range of the field
ValidSet(parts) ==
    /\ Len(parts) >= 3
    /\ LET key == Lower(Strip(parts[2]))
           raw == Join(SubSeq(parts, 3, Len(parts)))
       IN  CASE key = <<"c", "o", "u", "n", "t">> -> IntWithin(raw, 1, 200)
             [] key = <<"c", "o", "n", "c", "u", "r", "r", "e", "n", "c", "y">> -> IntWithin(raw, 1, 16)
             [] key = <<"r", "e", "t", "r", "i", "e", "s">> -> IntWithin(raw, 0, 5)
             [] key = <<"t", "i", "m", "e", "o", "u", "t">> ->
                   PyFloat(raw).raised = None /\ NumberWithin(PyFloat(raw).value, 1, 120)
             [] key = <<"p", "r", "o", "v", "i", "d", "e", "r">> -> Names({"auto"} \cup ProviderNames, raw)
             [] key = <<"r", "a", "t", "i", "n", "g">> -> Names(VALID_USER_RATINGS, raw)
             [] key = <<"t", "h", "e", "m", "e">> ->
                   \/ Names(VALID_THEMES, raw)
                   \/ Lower(Strip(raw)) \in {<<"c", "a", "t", "g", "i", "r", "l", "s">>, <<"n", "e", "k", "o", "s">>, <<"f", "e", "m", "b", "o", "y", "s">>}
             [] key \in {<<"r", "a", "n", "d", "o", "m", "i", "z", "e">>, <<"r", "a", "n", "d", "o", "m">>, <<"r">>, <<"v", "e", "r", "b", "o", "s", "e">>} -> BoolWord(raw)
             [] key = <<"o", "u", "t">> -> TRUE
             [] OTHER -> FALSE

\* every setting lies within its range
SettingsInRange(settings) ==
    /\ settings.count \in 1..200
    /\ settings.concurrency \in 1..16
    /\ settings.retries \in 0..5
    /\ NumberWithin(settings.timeout, 1, 120)
    /\ settings.provider \in {"auto"} \cup ProviderNames
    /\ settings.theme \in VALID_THEMES
    /\ settings.rating \in VALID_USER_RATINGS
    /\ settings.randomize \in BOOLEAN
    /\ settings.verbose \in BOOLEAN

\* C39: in the REPL a `set` command with a value that cannot be parsed or
\* lies outside the range of its field, or with an unknown field, prints an
\* error, leaves every setting as it was and is followed by the next
\* prompt; so every setting handed to `run` lies within its range.
C39_InvalidSetRejected ==
    entry = "repl" =>
        /\ (IsSet(repl.last) /\ ~ValidSet(repl.last)) =>
              /\ repl.output = "error"
              /\ repl.settings = repl.before
              /\ repl.pc = "prompt"
        /\ repl.handed # None => SettingsInRange(repl.handed[1])

\* C39 witness: `set timeout nan` was accepted, and `run` has been given a
\* timeout that is not a number
C39_Witness ==
    /\ entry = "repl"
    /\ repl.read = 2
    /\ repl.last # <<>>
    /\ Lower(repl.last[1]) = <<"r", "u", "n">>
    /\ repl.handed # None
    /\ repl.handed[1].timeout.kind = "nan"
    /\ repl.handed[1].count = 1

\* the `set` line gives timeout the value nan, in any case and with any sign
SetsTimeoutNan(parts) ==
    /\ Len(parts) >= 3
    /\ Lower(Strip(parts[2])) = <<"t", "i", "m", "e", "o", "u", "t">>
    /\ PyFloat(Join(SubSeq(parts, 3, Len(parts)))).raised = None
    /\ PyFloat(Join(SubSeq(parts, 3, Len(parts)))).value.kind = "nan"

\* C39, all but nan: every other invalid `set` prints an error and changes
\* nothing, a valid one prints "Updated", no `set` ends the REPL, and the
\* settings handed to `run` are within their ranges but for a timeout nan
C39_RejectedButNan ==
    entry = "repl" =>
        /\ (IsSet(repl.last) /\ ~ValidSet(repl.last) /\ ~SetsTimeoutNan(repl.last)) =>
              /\ repl.output = "error"
              /\ repl.settings = repl.before
        /\ (IsSet(repl.last) /\ ValidSet(repl.last)) => repl.output = "updated"
        /\ IsSet(repl.last) => repl.pc = "prompt"
        /\ repl.handed # None =>
              \/ SettingsInRange(repl.handed[1])
              \/ /\ repl.handed[1].timeout.kind = "nan"
                 /\ SettingsInRange([repl.handed[1] EXCEPT !.timeout = DefaultSettings.timeout])

\* C39: `set count 201` was refused and the REPL prompts again
C39_RejectedWitness ==
    /\ entry = "repl"
    /\ repl.last = <<<<"s", "e", "t">>, <<"c", "o", "u", "n", "t">>, <<"2", "0", "1">>>>
    /\ repl.output = "error"
    /\ repl.settings = repl.before
    /\ repl.pc = "prompt"

====
